---- MODULE Spec2Model ----
(***************************************************************************)
(* A model of the knowledge-graph recommendation engine of                 *)
(* src/transE-main/recommend/simple_system.py: StudentModel (learner       *)
(* state), RecommendationSystem (grading, recommendation) and              *)
(* KnowledgeGraphRecommendationEngine (the registry and its API).          *)
(*                                                                         *)
(* Number representation.  Mastery scores are held in hundredths           *)
(* (0.05 -> 5, 1.0 -> 100) and question KP weights in tenths (0.5 -> 5),   *)
(* so that 0.3 * weight and 0.1 * weight are the integers 3 * w and 1 * w  *)
(* in hundredths.  Embeddings are taken in one dimension, where a          *)
(* unit-normalised embedding is +1 or -1, v / ||v|| is the sign of v and   *)
(* the cosine similarity of two non-zero vectors is the product of their   *)
(* signs.  Python dicts are insertion-ordered: a dict is a sequence of     *)
(* [k, v] pairs with distinct keys.                                        *)
(*                                                                         *)
(* Left out.  Arithmetic is exact: the rounding of Python floats at a      *)
(* threshold or in a tie is not modelled.  Fields that no decision reads   *)
(* (question content and difficulty, timestamps, mastery_variance,         *)
(* recommendation_score) are left out.  random.uniform and np.random.normal *)
(* are nondeterministic choices over the outcomes they can produce.        *)
(***************************************************************************)
EXTENDS Integers, Sequences, FiniteSets, TLC

VARIABLES
  questions,    \* RecommendationSystem.questions, the loaded question bank
  students,     \* KnowledgeGraphRecommendationEngine.students: id -> StudentModel
  heldRecord,   \* the result of the latest export_student_data, kept by the caller
  sharing,      \* ids of the learners whose question_history is the list object
                \* inside heldRecord (StudentModel.from_data keeps the reference)
  last,         \* the latest API call: its name, arguments and return value
  submitted,    \* history: per id made by create_student, batches and answers
                \* accepted since
  exportedFrom, \* history: the learner that the latest export_student_data read
  threads       \* per thread, the submit_answers call it is running: its
                \* position in the code and its local values

vars ==
  <<questions, students, heldRecord, sharing, last, submitted, exportedFrom,
    threads>>

----------------------------------------------------------------------------
(* Bounds of the model *)

MaxBatchLen == 2      \* longest answer list passed to one submit_answers call
MaxBatchCount == 3    \* submit_answers is explored while batch_count is below this
MaxHistory == 3       \* ... and while question_history stays within this length
MaxQuestions == 3     \* largest num_questions passed to get_recommendations

----------------------------------------------------------------------------
(* Program constants *)

MasteryOne == 100     \* min(1.0, ...) in hundredths
DeltaCorrect == 3     \* delta = 0.3 * weight
DeltaWrong == 1       \* delta = 0.1 * weight
StrengthCorrect == 10 \* learning_strength = 1.0 * weight
StrengthWrong == 3    \* learning_strength = 0.3 * weight
AlphaTenths == 7      \* alpha = 0.7
MasteredThreshold == 50 \* get_mastered_knowledge_points(threshold=0.5)

None == "None"        \* Python's None where a string is expected

----------------------------------------------------------------------------
(* Python dict as an insertion-ordered sequence of pairs *)

Pair(k, v) == [k |-> k, v |-> v]

DictKeys(d) == {d[i].k : i \in DOMAIN d}

DictHas(d, k) == k \in DictKeys(d)

DictGet(d, k) == d[CHOOSE i \in DOMAIN d : d[i].k = k].v

DictGetOr(d, k, dflt) == IF DictHas(d, k) THEN DictGet(d, k) ELSE dflt

DictSet(d, k, v) ==
  IF DictHas(d, k)
    THEN [i \in DOMAIN d |-> IF d[i].k = k THEN Pair(k, v) ELSE d[i]]
    ELSE Append(d, Pair(k, v))

Min(a, b) == IF a <= b THEN a ELSE b

Sign(x) == IF x > 0 THEN 1 ELSE IF x < 0 THEN -1 ELSE 0

----------------------------------------------------------------------------
(* The catalog: embeddings and the question bank *)

\* _load_embeddings: kp_id -> vector.  "K9" has no embedding.
Embeddings ==
  <<Pair("K1", 1), Pair("K2", 1), Pair("K3", -1), Pair("K4", 1), Pair("K8", -1)>>

Question(qid, options, answer, kps) ==
  [qid |-> qid, options |-> options, answer |-> answer, knowledge_points |-> kps]

\* _load_questions: the bank of the running system; "answer" is the text of
\* the correct option.
QuestionBank ==
  << Question("Q1", <<"x", "y", "z", "w">>, "x", <<Pair("K1", 10)>>),
     Question("Q2", <<"p", "q", "r", "s">>, "q", <<Pair("K2", 5), Pair("K3", 5)>>),
     Question("Q3", <<"t", "u", "v", "n">>, "v", <<Pair("K3", 10), Pair("K4", 5)>>),
     Question("Q7", <<"e", "f", "g", "h">>, "h", <<Pair("K8", 10)>>) >>

\* get_question_by_id: the first question with that qid, or none (<<>>).
get_question_by_id(qid) ==
  LET hits == {i \in DOMAIN questions : questions[i].qid = qid}
  IN  IF hits = {} THEN <<>>
      ELSE <<questions[CHOOSE i \in hits : \A j \in hits : i <= j]>>

----------------------------------------------------------------------------
(* Answer Grader: RecommendationSystem.check_answer *)

\* str.upper() on the strings the model passes as a selection
Upper(s) ==
  CASE s = "a" -> "A" [] s = "b" -> "B" [] s = "c" -> "C" [] s = "d" -> "D"
    [] s = "e" -> "E" [] OTHER -> s

\* chr(65 + i) for the 0-based position i of an option (positions are 1-based here)
Chr65(i) ==
  CASE i = 1 -> "A" [] i = 2 -> "B" [] i = 3 -> "C" [] i = 4 -> "D"
    [] OTHER -> "E"

\* option_map.get(letter): the option at the letter's position, or None
OptionMapGet(options, letter) ==
  LET hits == {i \in DOMAIN options : Chr65(i) = letter}
  IN  IF hits = {} THEN None ELSE options[CHOOSE i \in hits : TRUE]

\* the loop that finds correct_letter: the first position holding the answer text
CorrectLetter(options, answer) ==
  LET hits == {i \in DOMAIN options : options[i] = answer}
  IN  IF hits = {} THEN None
      ELSE Chr65(CHOOSE i \in hits : \A j \in hits : i <= j)

\* IsCorrect without selected_answer.upper()
IsCorrect_NoUpper(question, selected_answer) ==
  LET selected_option == OptionMapGet(question.options, selected_answer)
  IN  IF selected_option = question.answer THEN TRUE
      ELSE IF selected_answer \in {"A", "B", "C", "D"}
        THEN selected_answer = CorrectLetter(question.options, question.answer)
        ELSE FALSE

\* the is_correct that check_answer computes
IsCorrect(question, selected_answer) ==
  LET selected_option == OptionMapGet(question.options, Upper(selected_answer))
  IN  IF selected_option = question.answer THEN TRUE
      ELSE IF Upper(selected_answer) \in {"A", "B", "C", "D"}
        THEN Upper(selected_answer) = CorrectLetter(question.options, question.answer)
        ELSE FALSE

check_answer(qid, selected_answer) ==
  LET found == get_question_by_id(qid)
  IN  IF found = <<>>
        THEN [status |-> "error", message |-> "UnknownQuestion"]
        ELSE LET question == found[1]
             IN  [status |-> "success",
                  qid |-> qid,
                  selected |-> Upper(selected_answer),
                  selected_option |->
                    OptionMapGet(question.options, Upper(selected_answer)),
                  correct_answer |-> question.answer,
                  is_correct |-> IsCorrect(question, selected_answer),
                  knowledge_points |-> question.knowledge_points]

\* dict.get(field, default) on a record
dict_get(d, field, dflt) == IF field \in DOMAIN d THEN d[field] ELSE dflt

\* batch_check_answers
batch_check_answers(answer_submissions) ==
  [i \in DOMAIN answer_submissions |->
     LET qid == dict_get(answer_submissions[i], "qid", None)
         selected == dict_get(answer_submissions[i], "selected", None)
     IN  IF qid \in {None, ""} \/ selected \in {None, ""}
           THEN [status |-> "error", message |-> "BadFormat"]
           ELSE check_answer(qid, selected)]

----------------------------------------------------------------------------
(* Learner State: class StudentModel *)

\* a numpy array of the (one-dimensional) embedding space, a Python list of
\* floats, and None where an array or list is expected
NdArray(x) == [nd |-> x]
PyList(xs) == [list |-> xs]
PyNone == [none |-> TRUE]

\* StudentModel.__init__'s default mastery when initial_mastery is None
DefaultMastery == <<Pair("K1", 10), Pair("K2", 10), Pair("K3", 5)>>

\* StudentModel.__init__; initial_mastery is <<>> for None, <<m>> for a dict m
StudentModel(student_id, initial_mastery) ==
  [student_id |-> student_id,
   mastery_scores |->
     IF initial_mastery = <<>> THEN DefaultMastery ELSE initial_mastery[1],
   vector |-> PyNone,
   question_history |-> <<>>,
   batch_count |-> 0,
   vector_history |-> <<>>]

RECURSIVE WeightedSum(_, _)
\* sum over the dict d of f-weighted scores of the KPs that have an embedding
\* and a positive score; byEmbedding selects score * embedding or score alone
WeightedSum(d, byEmbedding) ==
  IF d = <<>> THEN 0
  ELSE LET e == Head(d)
           term == IF DictHas(Embeddings, e.k) /\ e.v > 0
                     THEN IF byEmbedding THEN e.v * DictGet(Embeddings, e.k)
                                         ELSE e.v
                     ELSE 0
       IN  term + WeightedSum(Tail(d), byEmbedding)

\* initialize_vector_from_mastery: the students it can produce.  With no
\* positive weight the vector is np.random.normal(0, 0.1, dim), normalised:
\* either sign.
initialize_vector_from_mastery(student) ==
  LET weighted_vector == WeightedSum(student.mastery_scores, TRUE)
      total_weight == WeightedSum(student.mastery_scores, FALSE)
      vs == IF total_weight > 0 THEN {Sign(weighted_vector)} ELSE {-1, 1}
  IN  {[student EXCEPT !.vector = NdArray(v),
                       !.vector_history = <<NdArray(v)>>] : v \in vs}

RECURSIVE KpSum(_, _)
\* the inner loop of _compute_batch_vector for one answer, in hundredths
KpSum(kps, correct) ==
  IF kps = <<>> THEN 0
  ELSE LET e == Head(kps)
           learning_strength ==
             IF correct THEN StrengthCorrect * e.v ELSE StrengthWrong * e.v
           term == IF DictHas(Embeddings, e.k)
                     THEN learning_strength * DictGet(Embeddings, e.k)
                     ELSE 0
       IN  term + KpSum(Tail(kps), correct)

RECURSIVE BatchSum(_)
BatchSum(answers) ==
  IF answers = <<>> THEN 0
  ELSE KpSum(Head(answers).knowledge_points, Head(answers).correct)
         + BatchSum(Tail(answers))

\* _compute_batch_vector: the rational num / (100 * den)
_compute_batch_vector(answers) ==
  [num |-> BatchSum(answers),
   den |-> IF Len(answers) > 0 THEN Len(answers) ELSE 1]

RECURSIVE UpdateKps_NoClamp(_, _, _)
\* UpdateKps without min(1.0, ...)
UpdateKps_NoClamp(mastery, kps, correct) ==
  IF kps = <<>> THEN mastery
  ELSE LET e == Head(kps)
           m0 == IF DictHas(mastery, e.k) THEN mastery
                 ELSE DictSet(mastery, e.k, 0)
           delta == IF correct THEN DeltaCorrect * e.v ELSE DeltaWrong * e.v
           m1 == DictSet(m0, e.k, DictGet(m0, e.k) + delta)
       IN  UpdateKps_NoClamp(m1, Tail(kps), correct)

RECURSIVE UpdateKps_Penalize(_, _, _)
\* UpdateKps that takes DeltaWrong * weight off on a wrong answer
UpdateKps_Penalize(mastery, kps, correct) ==
  IF kps = <<>> THEN mastery
  ELSE LET e == Head(kps)
           m0 == IF DictHas(mastery, e.k) THEN mastery
                 ELSE DictSet(mastery, e.k, 0)
           delta == IF correct THEN DeltaCorrect * e.v ELSE 0 - DeltaWrong * e.v
           m1 == DictSet(m0, e.k, Min(MasteryOne, DictGet(m0, e.k) + delta))
       IN  UpdateKps_Penalize(m1, Tail(kps), correct)

RECURSIVE UpdateKps(_, _, _)
\* the inner loop of _update_mastery_scores for one answer
UpdateKps(mastery, kps, correct) ==
  IF kps = <<>> THEN mastery
  ELSE LET e == Head(kps)
           m0 == IF DictHas(mastery, e.k) THEN mastery
                 ELSE DictSet(mastery, e.k, 0)
           delta == IF correct THEN DeltaCorrect * e.v ELSE DeltaWrong * e.v
           m1 == DictSet(m0, e.k, Min(MasteryOne, DictGet(m0, e.k) + delta))
       IN  UpdateKps(m1, Tail(kps), correct)

RECURSIVE _update_mastery_scores(_, _)
_update_mastery_scores(mastery, answers) ==
  IF answers = <<>> THEN mastery
  ELSE _update_mastery_scores(
         UpdateKps(mastery, Head(answers).knowledge_points, Head(answers).correct),
         Tail(answers))

\* update_from_answers without vector_history.append
update_from_answers_NoSnapshot(student, answers) ==
  LET batch_vector == _compute_batch_vector(answers)
      combined ==
        IF student.batch_count = 0
          THEN batch_vector.num
          ELSE AlphaTenths * student.vector.nd * 100 * batch_vector.den
                 + (10 - AlphaTenths) * batch_vector.num
      vector == NdArray(IF combined # 0 THEN Sign(combined) ELSE 0)
  IN  [student EXCEPT
         !.vector = vector,
         !.mastery_scores = _update_mastery_scores(student.mastery_scores, answers),
         !.question_history = student.question_history \o answers,
         !.batch_count = student.batch_count + 1]

\* update_from_answers without lines 70-71: the vector of line 65 or 67 is
\* kept as it is, in thousandths per answer of the batch
update_from_answers_NoNormalize(student, answers) ==
  LET batch_vector == _compute_batch_vector(answers)
      combined ==
        IF student.batch_count = 0
          THEN batch_vector.num
          ELSE AlphaTenths * student.vector.nd * 100 * batch_vector.den
                 + (10 - AlphaTenths) * batch_vector.num
      vector == NdArray(combined)
  IN  [student EXCEPT
         !.vector = vector,
         !.mastery_scores = _update_mastery_scores(student.mastery_scores, answers),
         !.question_history = student.question_history \o answers,
         !.vector_history = Append(student.vector_history, vector),
         !.batch_count = student.batch_count + 1]

\* update_from_answers, alpha = 0.7
update_from_answers(student, answers) ==
  LET batch_vector == _compute_batch_vector(answers)
      combined ==
        IF student.batch_count = 0
          THEN batch_vector.num
          ELSE AlphaTenths * student.vector.nd * 100 * batch_vector.den
                 + (10 - AlphaTenths) * batch_vector.num
      vector == NdArray(IF combined # 0 THEN Sign(combined) ELSE 0)
  IN  [student EXCEPT
         !.vector = vector,
         !.mastery_scores = _update_mastery_scores(student.mastery_scores, answers),
         !.question_history = student.question_history \o answers,
         !.vector_history = Append(student.vector_history, vector),
         !.batch_count = student.batch_count + 1]

\* the keys of the items of a dict, in order
Keys(items) == [i \in DOMAIN items |-> items[i].k]

\* get_mastered_knowledge_points(threshold): the KP ids, in dict order
get_mastered_knowledge_points(student, threshold) ==
  Keys(SelectSeq(student.mastery_scores, LAMBDA e : e.v >= threshold))

\* get_mastery_level
get_mastery_level(student, kp_id) == DictGetOr(student.mastery_scores, kp_id, 0)

\* the elements of a list
Range(seq) == {seq[i] : i \in DOMAIN seq}

\* list.sort / sorted: a stable sort; better[a, b] tells that a's key sorts
\* strictly before b's
StableSort(seq, better) ==
  LET n == Len(seq)
      Before(i, j) ==
        \/ better[seq[i], seq[j]]
        \/ (~better[seq[j], seq[i]] /\ i < j)
      rank(i) == Cardinality({j \in 1..n : j # i /\ Before(j, i)}) + 1
  IN  [p \in 1..n |-> seq[CHOOSE i \in 1..n : rank(i) = p]]

\* get_weak_knowledge_points(threshold): (kp, score) items by ascending score
get_weak_knowledge_points(student, threshold) ==
  LET weak == SelectSeq(student.mastery_scores, LAMBDA e : e.v < threshold)
  IN  StableSort(weak, [a \in Range(weak), b \in Range(weak) |-> a.v < b.v])

----------------------------------------------------------------------------
(* State Analyzer and Strategy Selector.  Ratios of small integers are
   compared by cross-multiplication, thresholds are in tenths. *)


\* list[:n] for n >= 0
Take(seq, n) == SubSeq(seq, 1, Min(n, Len(seq)))

\* list[-n:]
LastN(seq, n) ==
  IF Len(seq) > n THEN SubSeq(seq, Len(seq) - n + 1, Len(seq)) ELSE seq

RECURSIVE Flatten(_)
\* the concatenation of a list of lists
Flatten(lists) ==
  IF lists = <<>> THEN <<>> ELSE Head(lists) \o Flatten(Tail(lists))

RECURSIVE SumV(_)
\* sum(d.values())
SumV(items) == IF items = <<>> THEN 0 ELSE Head(items).v + SumV(Tail(items))

Abs(x) == IF x < 0 THEN -x ELSE x

Ratio(num, den) == [num |-> num, den |-> den]

\* sum(1 for q in answers if q.get('correct', False))
CorrectCount(answers) ==
  Cardinality({i \in DOMAIN answers : dict_get(answers[i], "correct", FALSE)})

\* cosine_similarity of the embeddings of two KPs: the product of two signs
Similarity(kp_a, kp_b) == DictGet(Embeddings, kp_a) * DictGet(Embeddings, kp_b)

RECURSIVE StepSum(_)
\* the sum of the norms of the steps between successive vectors
StepSum(vectors) ==
  IF Len(vectors) < 2 THEN 0
  ELSE Abs(vectors[2].nd - vectors[1].nd) + StepSum(Tail(vectors))

\* _calculate_learning_trend
_calculate_learning_trend(student) ==
  LET history == student.question_history
      recent_vectors == LastN(student.vector_history, 3)
      half == Len(history) \div 2
      first_half == SubSeq(history, 1, half)
      second_half == SubSeq(history, half + 1, Len(history))
      c1 == CorrectCount(first_half)
      n1 == Len(first_half)
      c2 == CorrectCount(second_half)
      n2 == Len(second_half)
  IN  IF Len(student.vector_history) < 2
        THEN [trend |-> "insufficient_data", momentum |-> Ratio(0, 1)]
        ELSE [trend |->
                IF Len(history) >= 6
                  THEN IF 10 * c2 * n1 > 10 * c1 * n2 + n1 * n2 THEN "improving"
                       ELSE IF 10 * c2 * n1 < 10 * c1 * n2 - n1 * n2 THEN "declining"
                       ELSE "stable"
                  ELSE "insufficient_data",
              momentum |-> Ratio(StepSum(recent_vectors), Len(recent_vectors) - 1)]

\* _estimate_ability_level: combined_score = (avg_mastery + recent_accuracy) / 2
\* against 0.8, 0.6 and 0.4
_estimate_ability_level(student) ==
  LET total == SumV(student.mastery_scores)
      count == IF student.mastery_scores = <<>> THEN 1
               ELSE Len(student.mastery_scores)
      recent_questions == LastN(student.question_history, 5)
      correct == IF Len(student.question_history) >= 3
                   THEN CorrectCount(recent_questions) ELSE 0
      asked == IF Len(student.question_history) >= 3
                 THEN Len(recent_questions) ELSE 1
      \* combined_score >= tenths / 10
      AtLeast(tenths) ==
        10 * (total * asked + 100 * count * correct)
          >= 2 * tenths * 100 * count * asked
  IN  IF AtLeast(8) THEN "advanced"
      ELSE IF AtLeast(6) THEN "intermediate"
      ELSE IF AtLeast(4) THEN "beginner"
      ELSE "struggling"

\* _analyze_knowledge_connectivity
_analyze_knowledge_connectivity(mastered_points, weak_points) ==
  LET weak_kps == Keys(weak_points)
      has_connection(weak_kp) ==
        \E i \in DOMAIN mastered_points :
          /\ DictHas(Embeddings, weak_kp)
          /\ DictHas(Embeddings, mastered_points[i])
          /\ 10 * Similarity(weak_kp, mastered_points[i]) > 3
      candidates_of(mastered_kp) ==
        IF ~DictHas(Embeddings, mastered_kp) THEN <<>>
        ELSE LET close ==
                   SelectSeq(Embeddings,
                             LAMBDA e : /\ e.k \notin Range(mastered_points)
                                        /\ e.k \notin Range(weak_kps)
                                        /\ 10 * Similarity(mastered_kp, e.k) > 4)
             IN  [i \in DOMAIN close |->
                    Pair(close[i].k, Similarity(mastered_kp, close[i].k))]
      expansion_candidates ==
        Flatten([i \in DOMAIN mastered_points |-> candidates_of(mastered_points[i])])
  IN  [isolated_weak_points |->
         SelectSeq(weak_kps, LAMBDA kp : ~has_connection(kp)),
       connected_weak_points |->
         SelectSeq(weak_kps, LAMBDA kp : has_connection(kp)),
       expansion_candidates |->
         Take(StableSort(expansion_candidates,
                         [a \in Range(expansion_candidates),
                          b \in Range(expansion_candidates) |-> a.v > b.v]),
              5)]

\* _analyze_student_learning_state; mastery_variance is left out
_analyze_student_learning_state(student) ==
  LET weak_points == get_weak_knowledge_points(student, 30)
      mastered_points == get_mastered_knowledge_points(student, MasteredThreshold)
      moderate_points ==
        SelectSeq(student.mastery_scores, LAMBDA e : 30 <= e.v /\ e.v < 50)
      recent_questions == LastN(student.question_history, 5)
  IN  [weak_points |-> weak_points,
       mastered_points |-> mastered_points,
       moderate_points |-> moderate_points,
       avg_mastery |->
         Ratio(SumV(student.mastery_scores),
               IF student.mastery_scores = <<>> THEN 1
               ELSE Len(student.mastery_scores)),
       recent_accuracy |->
         IF recent_questions = <<>> THEN Ratio(0, 1)
         ELSE Ratio(CorrectCount(recent_questions), Len(recent_questions)),
       total_questions |-> Len(student.question_history),
       batch_count |-> student.batch_count,
       learning_trend |-> _calculate_learning_trend(student),
       ability_level |-> _estimate_ability_level(student),
       knowledge_connectivity |->
         _analyze_knowledge_connectivity(mastered_points, weak_points)]

\* the strategy_scores of _determine_recommendation_strategy, in tenths, in
\* the order of the dict
strategy_scores(learning_state) ==
  LET weak_count == Len(learning_state.weak_points)
      mastered_count == Len(learning_state.mastered_points)
      moderate_count == Len(learning_state.moderate_points)
      total_kps == weak_count + mastered_count + moderate_count
      accuracy == learning_state.recent_accuracy
      trend == learning_state.learning_trend.trend
      ability_level == learning_state.ability_level
      connectivity == learning_state.knowledge_connectivity
      \* count / total_kps > tenths / 10
      Above(count, tenths) == 10 * count > tenths * total_kps
      low_accuracy == 10 * accuracy.num < 4 * accuracy.den
      high_accuracy == 10 * accuracy.num > 8 * accuracy.den
      gap_filling ==
        (IF Above(weak_count, 4) THEN 4 ELSE IF Above(weak_count, 2) THEN 2 ELSE 0)
        + (IF low_accuracy THEN 3 ELSE 0)
        + (IF trend = "declining" THEN 2 ELSE 0)
        + (IF ability_level = "struggling" THEN 3 ELSE 0)
        + (IF Len(connectivity.isolated_weak_points) > 2 THEN 2 ELSE 0)
      consolidation ==
        (IF Above(moderate_count, 4) THEN 4
         ELSE IF Above(moderate_count, 2) THEN 2 ELSE 0)
        + (IF ~low_accuracy /\ ~high_accuracy THEN 2 ELSE 0)
        + (IF trend \in {"declining", "improving"} THEN 1 ELSE 0)
        + (IF ability_level \notin {"struggling", "advanced"} THEN 2 ELSE 0)
        + (IF Len(connectivity.connected_weak_points) > 1 THEN 1 ELSE 0)
      expansion ==
        (IF Above(mastered_count, 6) THEN 4
         ELSE IF Above(mastered_count, 4) THEN 2 ELSE 0)
        + (IF ~low_accuracy /\ high_accuracy THEN 3 ELSE 0)
        + (IF trend = "improving" THEN 2 ELSE 0)
        + (IF ability_level = "advanced" THEN 3 ELSE 0)
        + (IF Len(connectivity.expansion_candidates) > 3 THEN 2 ELSE 0)
  IN  <<Pair("gap_filling", gap_filling), Pair("consolidation", consolidation),
        Pair("expansion", expansion), Pair("balanced", 2)>>

\* _determine_recommendation_strategy: max() returns the first item of the
\* highest score
_determine_recommendation_strategy(learning_state) ==
  LET scores == strategy_scores(learning_state)
      best == CHOOSE i \in DOMAIN scores :
                /\ \A j \in DOMAIN scores : scores[j].v <= scores[i].v
                /\ \A j \in 1..(i - 1) : scores[j].v < scores[i].v
  IN  IF Len(learning_state.weak_points) + Len(learning_state.mastered_points)
           + Len(learning_state.moderate_points) = 0
        THEN "balanced"
        ELSE scores[best].k

----------------------------------------------------------------------------
(* Candidate Generator: the target KPs of the four strategies *)

Max(a, b) == IF a >= b THEN a ELSE b

\* _find_related_weak_points
_find_related_weak_points(weak_points, mastered_points) ==
  Keys(SelectSeq(weak_points,
                 LAMBDA w : \E i \in DOMAIN mastered_points :
                              /\ DictHas(Embeddings, w.k)
                              /\ DictHas(Embeddings, mastered_points[i])
                              /\ 10 * Similarity(w.k, mastered_points[i]) > 3))

\* target_kps of _consolidation_recommend
consolidation_targets(learning_state) ==
  Keys(Take(learning_state.moderate_points, 3))
    \o Take(learning_state.mastered_points, 2)

\* target_kps of _gap_filling_recommend
gap_filling_targets(learning_state) ==
  LET weak_points == learning_state.weak_points
      mastered_points == learning_state.mastered_points
      related ==
        IF mastered_points # <<>> /\ weak_points # <<>>
          THEN Take(_find_related_weak_points(weak_points, mastered_points), 2)
          ELSE <<>>
      remaining_weak ==
        SelectSeq(Keys(weak_points), LAMBDA kp : kp \notin Range(related))
  IN  IF Len(related) < 2
        THEN related \o Take(remaining_weak, 3 - Len(related))
        ELSE related

\* target_kps of _balanced_recommend
balanced_targets(learning_state) ==
  LET weak_points == learning_state.weak_points
      first == IF weak_points # <<>> THEN <<weak_points[1].k>> ELSE <<>>
      second == first \o Keys(Take(learning_state.moderate_points, 2))
  IN  IF learning_state.mastered_points # <<>> /\ Len(second) < 3
        THEN Append(second, learning_state.mastered_points[1])
        ELSE second

\* the relation types that _expansion_recommend explores from a mastered KP
RelationTypes == <<"prerequisite", "similarity", "advanced">>

\* the first target_kps of _expansion_recommend: the expansion candidates
expansion_candidates_targets(learning_state) ==
  Keys(Take(learning_state.knowledge_connectivity.expansion_candidates, 3))

\* top_mastered of _expansion_recommend
top_mastered(student, learning_state) ==
  Take(StableSort(learning_state.mastered_points,
                  [a \in Range(learning_state.mastered_points),
                   b \in Range(learning_state.mastered_points) |->
                     get_mastery_level(student, a)
                       > get_mastery_level(student, b)]),
       3)

\* _expansion_recommend raises KeyError at self.embeddings[mastered_kp]
expansion_raises(student, learning_state) ==
  /\ learning_state.mastered_points # <<>>
  /\ Len(expansion_candidates_targets(learning_state)) < 3
  /\ \E kp \in Range(top_mastered(student, learning_state)) :
       ~DictHas(Embeddings, kp)

\* what _get_enhanced_relation_vector can return over one call of
\* _expansion_recommend: a unit vector, of either sign, for every top
\* mastered KP and relation type.  The three vectors drawn for a KP count
\* through the set of their signs.
RelationDraws(student, learning_state) ==
  [DOMAIN top_mastered(student, learning_state) ->
     {{sign[t] : t \in DOMAIN RelationTypes} :
        sign \in [DOMAIN RelationTypes -> {-1, 1}]}]

\* target_kps of _expansion_recommend under the drawn relation vectors
expansion_targets(student, learning_state, draws) ==
  LET first == expansion_candidates_targets(learning_state)
      top == top_mastered(student, learning_state)
      unmastered ==
        SelectSeq(Keys(Embeddings),
                  LAMBDA kp : get_mastery_level(student, kp) < 30
                                /\ kp \notin Range(first))
      \* cosine_similarity(V_mastered + relation_vector, kp_embedding)
      similarity(i, relation_vector, kp) ==
        Sign(DictGet(Embeddings, top[i]) + relation_vector)
          * DictGet(Embeddings, kp)
      scores(kp) ==
        UNION {{similarity(i, relation_vector, kp)
                  * get_mastery_level(student, top[i]) :
                  relation_vector \in draws[i]} :
               i \in DOMAIN top}
      score(kp) == CHOOSE x \in scores(kp) : \A y \in scores(kp) : y <= x
      vector_sorted ==
        StableSort(unmastered,
                   [a \in Range(unmastered), b \in Range(unmastered) |->
                      score(a) > score(b)])
  IN  IF Len(first) < 3
        THEN first \o Take(vector_sorted, 3 - Len(first))
        ELSE first

----------------------------------------------------------------------------
(* Ranker: _recommend_by_target_kps.  Difficulty, overlap and match are
   integers in units of 1 / ScoreUnit, final scores in units of
   1 / (100 * ScoreUnit); the catalog's weights keep every quotient exact. *)

ScoreUnit == 18 * 10000

\* an attempted list that holds no qid
attempted_Nothing(student) == {}

\* attempted: the qids of question_history
attempted(student) ==
  {student.question_history[i].qid : i \in DOMAIN student.question_history}

RECURSIVE WeightedDifficulty(_, _)
\* total_difficulty of _estimate_question_difficulty, in thousandths
WeightedDifficulty(kps, student) ==
  IF kps = <<>> THEN 0
  ELSE (100 - get_mastery_level(student, Head(kps).k)) * Head(kps).v
         + WeightedDifficulty(Tail(kps), student)

\* _estimate_question_difficulty
_estimate_question_difficulty(question, student) ==
  LET kps == question.knowledge_points
      total_weight == SumV(kps)
      avg_difficulty ==
        IF total_weight > 0
          THEN (WeightedDifficulty(kps, student) * ScoreUnit) \div (100 * total_weight)
          ELSE ScoreUnit \div 2
      complexity_factor ==
        IF Len(kps) >= 3 THEN ScoreUnit ELSE (Len(kps) * ScoreUnit) \div 3
  IN  Min(avg_difficulty + complexity_factor \div 5, ScoreUnit)

\* _calculate_difficulty_match
_calculate_difficulty_match(difficulty_score, ability_level, strategy_name) ==
  LET tenth == ScoreUnit \div 10
      range == CASE ability_level = "struggling" -> <<2, 4>>
                 [] ability_level = "beginner" -> <<3, 5>>
                 [] ability_level = "advanced" -> <<6, 9>>
                 [] OTHER -> <<4, 7>>
      adjustment == CASE strategy_name = "gap_filling" -> -1
                      [] strategy_name = "expansion" -> 1
                      [] OTHER -> 0
      min_difficulty == Max(0, range[1] + adjustment) * tenth
      max_difficulty == Min(10, range[2] + adjustment) * tenth
      center == (min_difficulty + max_difficulty) \div 2
      max_distance == (max_difficulty - min_difficulty) \div 2
      \* max_distance is a multiple of 0.05 = ScoreUnit / 20
      twentieths == max_distance \div (ScoreUnit \div 20)
  IN  IF min_difficulty <= difficulty_score /\ difficulty_score <= max_difficulty
        THEN IF max_distance > 0
               THEN ScoreUnit - (Abs(difficulty_score - center) * 20) \div twentieths
               ELSE ScoreUnit
        ELSE LET distance == IF difficulty_score < min_difficulty
                               THEN min_difficulty - difficulty_score
                               ELSE difficulty_score - max_difficulty
             IN  Max(0, ScoreUnit - 2 * distance)

RECURSIVE OverlapSum(_, _)
\* sum(q['knowledge_points'].get(kp, 0) for kp in mastered_kps), in tenths
OverlapSum(kps, mastered_kps) ==
  IF mastered_kps = <<>> THEN 0
  ELSE DictGetOr(kps, Head(mastered_kps), 0) + OverlapSum(kps, Tail(mastered_kps))

\* the candidates of one target KP: kp_questions, sorted, its first three
kp_questions(student, target_kp, strategy_name) ==
  LET ability_level == _estimate_ability_level(student)
      mastered_kps == get_mastered_knowledge_points(student, 30)
      open == SelectSeq(questions,
                        LAMBDA q : /\ q.qid \notin attempted(student)
                                   /\ DictHas(q.knowledge_points, target_kp))
      entry(q) ==
        LET difficulty_score == _estimate_question_difficulty(q, student)
        IN  [question |-> q,
             target_kp |-> target_kp,
             kp_weight |-> DictGetOr(q.knowledge_points, target_kp, 0),
             mastered_overlap |->
               IF mastered_kps = <<>> THEN 0
               ELSE (OverlapSum(q.knowledge_points, mastered_kps) * ScoreUnit)
                      \div (10 * Len(mastered_kps)),
             difficulty_score |-> difficulty_score,
             difficulty_match |->
               _calculate_difficulty_match(difficulty_score, ability_level,
                                           strategy_name)]
      entries == [i \in DOMAIN open |-> entry(open[i])]
      better(a, b) ==
        \/ a.kp_weight > b.kp_weight
        \/ /\ a.kp_weight = b.kp_weight
           /\ \/ a.difficulty_match > b.difficulty_match
              \/ /\ a.difficulty_match = b.difficulty_match
                 /\ a.mastered_overlap > b.mastered_overlap
  IN  Take(StableSort(entries,
                      [a \in Range(entries), b \in Range(entries) |->
                         better(a, b)]),
           3)

\* final_score of a candidate before the random factor
final_score(cq, strategy_name) ==
  LET weights == CASE strategy_name = "gap_filling" -> <<50, 20, 10, 20>>
                   [] strategy_name = "expansion" -> <<30, 20, 30, 20>>
                   [] strategy_name = "consolidation" -> <<40, 30, 10, 20>>
                   [] OTHER -> <<40, 25, 15, 20>>
      coverage_score == cq.kp_weight * (ScoreUnit \div 10)
      relevance_score == cq.mastered_overlap
      diversity_score == Len(cq.question.knowledge_points) * (ScoreUnit \div 10)
      adaptability_score == cq.difficulty_match
  IN  weights[1] * coverage_score + weights[2] * relevance_score
        + weights[3] * diversity_score + weights[4] * adaptability_score

\* with random factors from uniform(0.95, 1.05), a sorts before b whatever
\* the draws when 0.95 * a >= 1.05 * b
SurelyBefore(score_a, score_b) == 95 * score_a >= 105 * score_b

RECURSIVE RankedPrefixes(_, _, _)
\* the first k places of the orders that sorting by randomised score can
\* give to the candidates of the index set remaining
RankedPrefixes(scores, remaining, k) ==
  IF k <= 0 \/ remaining = {} THEN {<<>>}
  ELSE LET firsts == {i \in remaining :
                        \A j \in remaining \ {i} : ~SurelyBefore(scores[j], scores[i])}
       IN  UNION {{<<i>> \o rest :
                     rest \in RankedPrefixes(scores, remaining \ {i}, k - 1)} :
                  i \in firsts}

\* q_copy of _recommend_by_target_kps; recommendation_score, a random
\* number, is left out
Recommended(question, strategy_name) ==
  [qid |-> question.qid,
   options |-> question.options,
   answer |-> question.answer,
   knowledge_points |-> question.knowledge_points,
   recommendation_strategy |-> strategy_name]

\* _recommend_by_target_kps: the lists it can return
_recommend_by_target_kps(student, target_kps, num_questions, strategy_name) ==
  IF target_kps = <<>> THEN {<<>>}
  ELSE LET candidate_questions ==
             Flatten([t \in DOMAIN target_kps |->
                        kp_questions(student, target_kps[t], strategy_name)])
           scores == [i \in DOMAIN candidate_questions |->
                        final_score(candidate_questions[i], strategy_name)]
           \* scored_questions[:num_questions]
           k == IF num_questions >= 0 THEN num_questions
                ELSE Len(candidate_questions) + num_questions
       IN  {[p \in DOMAIN order |->
               Recommended(candidate_questions[order[p]].question, strategy_name)] :
              order \in RankedPrefixes(scores, DOMAIN candidate_questions, k)}

----------------------------------------------------------------------------
(* Recommendation: recommend_questions and the strategies it runs.  Each
   operator gives the set of the lists that the randomised code can return. *)

\* list[:n]
PySlice(seq, n) == IF n >= 0 THEN Take(seq, n) ELSE Take(seq, Len(seq) + n)

\* a cold start that does not look at the KPs of a question
_cold_start_recommend_AnyKp(student, num_questions) ==
  {PySlice(SelectSeq(questions, LAMBDA q : q.qid \notin attempted(student)),
           num_questions)}

\* _cold_start_recommend
_cold_start_recommend(student, num_questions) ==
  LET basic_questions ==
        SelectSeq(questions,
                  LAMBDA q : /\ q.qid \notin attempted(student)
                             /\ \E kp \in {"K1", "K2", "K3"} :
                                  DictHas(q.knowledge_points, kp))
  IN  {PySlice(basic_questions, num_questions)}

_consolidation_recommend(student, num_questions, learning_state) ==
  _recommend_by_target_kps(student, consolidation_targets(learning_state),
                           num_questions, "consolidation")

_gap_filling_recommend(student, num_questions, learning_state) ==
  _recommend_by_target_kps(student, gap_filling_targets(learning_state),
                           num_questions, "gap_filling")

_balanced_recommend(student, num_questions, learning_state) ==
  _recommend_by_target_kps(student, balanced_targets(learning_state),
                           num_questions, "balanced")

\* _expansion_recommend, where it does not raise
_expansion_recommend(student, num_questions, learning_state) ==
  IF learning_state.mastered_points = <<>>
    THEN _balanced_recommend(student, num_questions, learning_state)
    ELSE LET targets == {expansion_targets(student, learning_state, draws) :
                           draws \in RelationDraws(student, learning_state)}
         IN  UNION {_recommend_by_target_kps(student, target_kps, num_questions,
                                             "expansion") :
                      target_kps \in targets}

\* the dispatch on the strategy name in _vector_based_recommend and
\* _mixed_strategy_recommend
strategy_recommend(strategy, student, num_questions, learning_state) ==
  CASE strategy = "consolidation" ->
         _consolidation_recommend(student, num_questions, learning_state)
    [] strategy = "gap_filling" ->
         _gap_filling_recommend(student, num_questions, learning_state)
    [] strategy = "expansion" ->
         _expansion_recommend(student, num_questions, learning_state)
    [] OTHER ->
         _balanced_recommend(student, num_questions, learning_state)

\* strategy_ratios of _mixed_strategy_recommend, in tenths, in dict order
strategy_ratios(primary_strategy) ==
  CASE primary_strategy = "gap_filling" ->
         <<Pair("gap_filling", 6), Pair("consolidation", 3), Pair("balanced", 1)>>
    [] primary_strategy = "expansion" ->
         <<Pair("expansion", 6), Pair("consolidation", 2), Pair("balanced", 2)>>
    [] primary_strategy = "consolidation" ->
         <<Pair("consolidation", 5), Pair("gap_filling", 3), Pair("expansion", 2)>>
    [] OTHER ->
         <<Pair("balanced", 4), Pair("consolidation", 3), Pair("gap_filling", 2),
           Pair("expansion", 1)>>

\* round() of a number given in tenths: to the nearest integer, halves to
\* the even one
PyRound(tenths) ==
  LET whole == tenths \div 10
      rest == tenths % 10
  IN  IF rest < 5 THEN whole
      ELSE IF rest > 5 THEN whole + 1
      ELSE IF whole % 2 = 0 THEN whole ELSE whole + 1

RECURSIVE Allocate(_, _, _)
\* the allocation loop of _mixed_strategy_recommend
Allocate(ratios, num_questions, remaining_questions) ==
  IF ratios = <<>> THEN <<>>
  ELSE LET wanted == IF remaining_questions > 0
                       THEN Max(1, PyRound(num_questions * Head(ratios).v))
                       ELSE 0
           allocated == Min(wanted, remaining_questions)
       IN  <<Pair(Head(ratios).k, allocated)>>
             \o Allocate(Tail(ratios), num_questions, remaining_questions - allocated)

\* strategy_allocations of _mixed_strategy_recommend
strategy_allocations(primary_strategy, num_questions) ==
  LET allocated == Allocate(strategy_ratios(primary_strategy), num_questions,
                            num_questions)
      remaining_questions == num_questions - SumV(allocated)
  IN  IF remaining_questions > 0
        THEN DictSet(allocated, primary_strategy,
                     DictGetOr(allocated, primary_strategy, 0) + remaining_questions)
        ELSE allocated

\* rec['strategy_source'] = strategy; rec['is_mixed_strategy'] = True
Mark(rec, strategy) ==
  [f \in DOMAIN rec \cup {"strategy_source", "is_mixed_strategy"} |->
     IF f = "strategy_source" THEN strategy
     ELSE IF f = "is_mixed_strategy" THEN TRUE
     ELSE rec[f]]

RECURSIVE all_candidates(_, _, _)
\* all_candidates of _mixed_strategy_recommend: the lists of the strategies
\* with a positive count, marked, one after the other
all_candidates(allocations, student, learning_state) ==
  IF allocations = <<>> THEN {<<>>}
  ELSE LET strategy == Head(allocations).k
           count == Head(allocations).v
           lists == IF count > 0
                      THEN strategy_recommend(strategy, student, count,
                                              learning_state)
                      ELSE {<<>>}
       IN  {[i \in DOMAIN recs |-> Mark(recs[i], strategy)] \o rest :
              recs \in lists,
              rest \in all_candidates(Tail(allocations), student, learning_state)}

\* the items of a list whose qid no earlier item has
Dedupe(recs) ==
  LET keep == {i \in DOMAIN recs : \A j \in 1..(i - 1) : recs[j].qid # recs[i].qid}
      nth(p) == CHOOSE i \in keep : Cardinality({j \in keep : j < i}) = p - 1
  IN  [p \in 1..Cardinality(keep) |-> recs[nth(p)]]

RECURSIVE TopUp(_, _, _, _)
\* the while loop of _mixed_strategy_recommend that adds, one at a time, the
\* first question of a balanced recommendation that is not yet in the list
TopUp(final_recommendations, student, num_questions, learning_state) ==
  IF Len(final_recommendations) >= num_questions THEN {final_recommendations}
  ELSE UNION
         {LET seen_qids == {final_recommendations[i].qid :
                              i \in DOMAIN final_recommendations}
              fresh == SelectSeq(additional, LAMBDA rec : rec.qid \notin seen_qids)
          IN  IF fresh = <<>> THEN {final_recommendations}
              ELSE TopUp(Append(final_recommendations, Mark(fresh[1], "supplement")),
                         student, num_questions, learning_state) :
            additional \in
              _balanced_recommend(student,
                                  num_questions - Len(final_recommendations),
                                  learning_state)}

\* _mixed_strategy_recommend, where it does not raise
_mixed_strategy_recommend(student, num_questions, learning_state, primary_strategy) ==
  LET allocations == strategy_allocations(primary_strategy, num_questions)
      merged == {Dedupe(recs) :
                   recs \in all_candidates(allocations, student, learning_state)}
  IN  {PySlice(final_recommendations, num_questions) :
         final_recommendations \in
           UNION {TopUp(recs, student, num_questions, learning_state) :
                    recs \in merged}}

\* _vector_based_recommend, where it does not raise
_vector_based_recommend(student, num_questions) ==
  LET learning_state == _analyze_student_learning_state(student)
      primary_strategy == _determine_recommendation_strategy(learning_state)
  IN  IF student.batch_count > 3
        THEN _mixed_strategy_recommend(student, num_questions, learning_state,
                                       primary_strategy)
        ELSE strategy_recommend(primary_strategy, student, num_questions,
                                learning_state)

\* recommend_questions raises: the KeyError of an _expansion_recommend it runs
recommend_raises(student, num_questions) ==
  LET learning_state == _analyze_student_learning_state(student)
      primary_strategy == _determine_recommendation_strategy(learning_state)
      allocations == strategy_allocations(primary_strategy, num_questions)
  IN  /\ get_mastered_knowledge_points(student, 10) # <<>>
      /\ expansion_raises(student, learning_state)
      /\ IF student.batch_count > 3
           THEN DictGetOr(allocations, "expansion", 0) > 0
           ELSE primary_strategy = "expansion"

\* recommend_questions, where it does not raise
recommend_questions(student, num_questions) ==
  IF get_mastered_knowledge_points(student, 10) = <<>>
    THEN _cold_start_recommend(student, num_questions)
    ELSE _vector_based_recommend(student, num_questions)

----------------------------------------------------------------------------
(* Inputs of the API calls *)

StudentIds == {"s1", "s2"}

\* initial_mastery arguments of create_student: None (<<>>) or a dict (<<m>>)
InitialMasteries ==
  { <<>>,
    << <<>> >>,
    << <<Pair("K1", 90)>> >>,
    << <<Pair("K1", 5), Pair("K2", 10), Pair("K3", 15), Pair("K4", 20)>> >>,
    << <<Pair("K2", 60), Pair("K1", 35), Pair("K3", 40)>> >> }

\* an answer in the format {qid, selected}
NewAnswer(qid, selected) == [qid |-> qid, selected |-> selected]

\* an answer in the older format {qid, correct, knowledge_points}
OldAnswer(qid, correct, kps) ==
  [qid |-> qid, correct |-> correct, knowledge_points |-> kps]

\* answers that submit_answers accepts
Answers ==
  { NewAnswer("Q1", "A"),       \* correct
    NewAnswer("Q2", "b"),       \* correct, lower case
    NewAnswer("Q3", "A"),       \* wrong
    OldAnswer("Q3", TRUE, <<Pair("K4", 8)>>) }

\* answers for the error paths of submit_answers
ErrAnswers ==
  { NewAnswer("Q1", "A"),       \* correct
    NewAnswer("Q1", "E"),       \* a letter outside A..D
    NewAnswer("Q999", "A"),     \* a qid that is not in the bank
    [qid |-> "Q3", correct |-> TRUE],    \* older format, knowledge_points missing
    OldAnswer("Q999", TRUE, <<Pair("K1", 10)>>) }   \* older format, qid not in the bank

SeqsUpTo(S, n) == UNION {[1..k -> S] : k \in 0..n}

Batches == SeqsUpTo(Answers, MaxBatchLen)

ErrBatches == SeqsUpTo(ErrAnswers, MaxBatchLen)

----------------------------------------------------------------------------
(* KnowledgeGraphRecommendationEngine: the API *)

Result(op, id, status, message) ==
  [op |-> op, id |-> id, status |-> status, message |-> message]

\* create_student
CreateStudent(id, initial_mastery) ==
  \E student \in initialize_vector_from_mastery(StudentModel(id, initial_mastery)) :
      /\ students' = [j \in DOMAIN students \cup {id} |->
                        IF j = id THEN student ELSE students[j]]
      /\ submitted' = [j \in DOMAIN submitted \cup {id} |->
                        IF j = id THEN [batches |-> 0, answers |-> 0]
                        ELSE submitted[j]]
      /\ sharing' = sharing \ {id}
      /\ last' = Result("create_student", id, "success", "created")
      /\ UNCHANGED <<questions, threads, heldRecord, exportedFrom>>

\* one iteration of the validation loop of submit_answers
ProcessAnswer(answer) ==
  IF "qid" \in DOMAIN answer /\ "selected" \in DOMAIN answer
    THEN LET check_result == check_answer(answer.qid, answer.selected)
         IN  IF check_result.status = "error"
               THEN [status |-> "error", message |-> check_result.message]
               ELSE [status |-> "success",
                     processed |->
                       [qid |-> check_result.qid,
                        correct |-> check_result.is_correct,
                        knowledge_points |-> check_result.knowledge_points,
                        selected |-> check_result.selected,
                        correct_answer |-> check_result.correct_answer]]
    ELSE IF {"qid", "correct", "knowledge_points"} \subseteq DOMAIN answer
           THEN [status |-> "success", processed |-> answer]
           ELSE [status |-> "error", message |-> "BadFormat"]

\* a validation loop that skips the answers it cannot process
ProcessAnswers_SkipInvalid(answers) ==
  LET good == SelectSeq(answers, LAMBDA a : ProcessAnswer(a).status = "success")
  IN  [status |-> "success",
       processed |-> [i \in DOMAIN good |-> ProcessAnswer(good[i]).processed]]

\* the validation loop of submit_answers: the first error ends it
ProcessAnswers(answers) ==
  LET bad == {i \in DOMAIN answers : ProcessAnswer(answers[i]).status = "error"}
  IN  IF bad # {}
        THEN ProcessAnswer(answers[CHOOSE i \in bad : \A j \in bad : i <= j])
        ELSE [status |-> "success",
              processed |-> [i \in DOMAIN answers |-> ProcessAnswer(answers[i]).processed]]

\* submit_answers.  question_history.extend also grows the list inside
\* heldRecord when the learner shares it.
SubmitAnswers(id, answers) ==
  IF id \notin DOMAIN students
    THEN /\ last' = Result("submit_answers", id, "error", "UnknownLearner")
         /\ UNCHANGED <<questions, threads, students, heldRecord, sharing, submitted,
                        exportedFrom>>
    ELSE
         LET student == students[id]
             r == ProcessAnswers(answers)
         IN  IF r.status = "error"
               THEN /\ last' = Result("submit_answers", id, "error", r.message)
                    /\ UNCHANGED <<questions, threads, students, heldRecord, sharing,
                                   submitted, exportedFrom>>
               ELSE /\ students' =
                         [students EXCEPT
                            ![id] = update_from_answers(student, r.processed)]
                    /\ heldRecord' =
                         IF id \in sharing
                           THEN <<[heldRecord[1] EXCEPT
                                     !.data.question_history = @ \o r.processed]>>
                           ELSE heldRecord
                    /\ submitted' =
                         IF id \in DOMAIN submitted
                           THEN [submitted EXCEPT
                                   ![id] = [batches |-> @.batches + 1,
                                            answers |-> @.answers + Len(answers)]]
                           ELSE submitted
                    /\ last' = Result("submit_answers", id, "success", "updated")
                    /\ UNCHANGED <<questions, threads, sharing, exportedFrom>>

\* self.questions with the dicts of the list recommended as the strategies
\* have left them, were those dicts the bank's own
questions_after_NoCopy(bank, recommended) ==
  [i \in DOMAIN bank |->
     LET hits == {j \in DOMAIN recommended : recommended[j].qid = bank[i].qid}
     IN  IF hits = {} THEN bank[i] ELSE recommended[CHOOSE j \in hits : TRUE]]

\* self.questions after recommend_questions has returned the list
\* recommended: what the strategies write into the dicts they hand out
\* (recommendation_strategy, strategy_source, is_mixed_strategy) goes to the
\* q.copy() of _recommend_by_target_kps, and the cold start writes nothing
questions_after(bank, recommended) == bank

\* get_recommendations; recommended is the list of recommend_questions,
\* recommendations the formatted list that is returned (content and
\* difficulty are left out)
GetRecommendations(id, num_questions) ==
  /\ IF id \notin DOMAIN students
       THEN /\ last' = Result("get_recommendations", id, "error", "UnknownLearner")
            /\ UNCHANGED questions
       ELSE IF recommend_raises(students[id], num_questions)
         THEN /\ last' = Result("get_recommendations", id, "exception", "KeyError")
              /\ UNCHANGED questions
         ELSE \E recommended \in recommend_questions(students[id], num_questions) :
                /\ questions' = questions_after(questions, recommended)
                /\ last' = [op |-> "get_recommendations", id |-> id,
                            status |-> "success",
                            num_questions |-> num_questions,
                            recommended |-> recommended,
                            recommendations |->
                              [i \in DOMAIN recommended |->
                                 [qid |-> recommended[i].qid,
                                  options |-> recommended[i].options,
                                  knowledge_points |->
                                    recommended[i].knowledge_points]],
                            batch_number |-> students[id].batch_count + 1]
  /\ UNCHANGED <<threads, students, heldRecord, sharing, submitted,
                 exportedFrom>>

\* check_answers: grades without touching any learner; accuracy is the
\* rational num / den
CheckAnswers(answer_submissions) ==
  LET results == batch_check_answers(answer_submissions)
      correct_count ==
        Cardinality({i \in DOMAIN results :
                       dict_get(results[i], "is_correct", FALSE)})
      total_count == Len(results)
  IN  /\ last' = [op |-> "check_answers", id |-> "none", status |-> "success",
                  args |-> answer_submissions,
                  total_questions |-> total_count,
                  correct_count |-> correct_count,
                  accuracy |-> [num |-> correct_count,
                                den |-> IF total_count > 0 THEN total_count ELSE 1],
                  details |-> results]
      /\ UNCHANGED <<questions, threads, students, heldRecord, sharing, submitted,
                     exportedFrom>>

\* the success result of get_student_status for a learner
StatusOf(id, student) ==
  [op |-> "get_student_status", id |-> id, status |-> "success",
   batch_count |-> student.batch_count,
   total_questions |-> Len(student.question_history),
   mastery_scores |-> student.mastery_scores,
   mastered_knowledge_points |->
     get_mastered_knowledge_points(student, MasteredThreshold),
   vector_norm |-> IF student.vector = PyNone THEN 0
                   ELSE IF student.vector.nd = 0 THEN 0 ELSE 1]

\* get_student_status
GetStudentStatus(id) ==
  /\ last' =
       IF id \notin DOMAIN students
         THEN Result("get_student_status", id, "error", "UnknownLearner")
         ELSE StatusOf(id, students[id])
  /\ UNCHANGED <<questions, threads, students, heldRecord, sharing, submitted, exportedFrom>>

\* StudentModel.get_learning_progress_summary; average_mastery is the
\* rational num / (100 * den)
get_learning_progress_summary(student) ==
  LET mastered == get_mastered_knowledge_points(student, 50)
      weak == get_weak_knowledge_points(student, 30)
      moderate == SelectSeq(student.mastery_scores,
                            LAMBDA e : 30 <= e.v /\ e.v < 50)
  IN  [total_knowledge_points |-> Len(student.mastery_scores),
       mastered |-> Len(mastered),
       moderate |-> Len(moderate),
       weak |-> Len(weak),
       mastered_list |-> mastered,
       weak_list |-> Keys(weak),
       average_mastery |->
         IF student.mastery_scores # <<>>
           THEN Ratio(SumV(student.mastery_scores), Len(student.mastery_scores))
           ELSE Ratio(0, 1)]

\* get_weak_knowledge_points of the engine; the advice texts of
\* _get_weak_point_recommendations are left out
GetWeakKnowledgePoints(id, threshold) ==
  /\ last' =
       IF id \notin DOMAIN students
         THEN Result("get_weak_knowledge_points", id, "error", "UnknownLearner")
         ELSE [op |-> "get_weak_knowledge_points", id |-> id,
               status |-> "success",
               weak_knowledge_points |->
                 get_weak_knowledge_points(students[id], threshold),
               progress_summary |-> get_learning_progress_summary(students[id])]
  /\ UNCHANGED <<questions, threads, students, heldRecord, sharing, submitted,
                 exportedFrom>>

\* get_students_list: one entry per learner of the registry; the order of
\* the entries and last_activity are left out
GetStudentsList ==
  /\ last' =
       [op |-> "get_students_list", id |-> "none", status |-> "success",
        students |->
          [id \in DOMAIN students |->
             [student_id |-> id,
              batch_count |-> students[id].batch_count,
              total_questions |-> Len(students[id].question_history),
              mastered_knowledge_points |->
                get_learning_progress_summary(students[id]).mastered,
              average_mastery |->
                get_learning_progress_summary(students[id]).average_mastery]],
        total_count |-> Cardinality(DOMAIN students)]
  /\ UNCHANGED <<questions, threads, students, heldRecord, sharing, submitted,
                 exportedFrom>>

----------------------------------------------------------------------------
(* Persistence: export_data, from_data and the registry's export, import, clear *)

\* ndarray.tolist() and np.array(list)
tolist(v) == PyList(v.nd)

np_array(l) == NdArray(l.list)

\* StudentModel.export_data; export_timestamp is left out
export_data(student) ==
  [student_id |-> student.student_id,
   mastery_scores |-> student.mastery_scores,
   question_history |-> student.question_history,
   batch_count |-> student.batch_count,
   version |-> "1.1",
   vector |-> IF student.vector # PyNone THEN tolist(student.vector) ELSE PyNone,
   vector_history |->
     [i \in DOMAIN student.vector_history |-> tolist(student.vector_history[i])]]

required_fields == {"student_id", "mastery_scores", "question_history"}

\* the part of from_data after the validation
Restore(student_data) ==
  LET student == StudentModel(student_data.student_id,
                              <<dict_get(student_data, "mastery_scores", <<>>)>>)
      vector == dict_get(student_data, "vector", PyNone)
      vector_history == dict_get(student_data, "vector_history", <<>>)
  IN  [student EXCEPT
         !.question_history = dict_get(student_data, "question_history", <<>>),
         !.batch_count = dict_get(student_data, "batch_count", 0),
         !.vector = IF vector # PyNone THEN np_array(vector) ELSE PyNone,
         !.vector_history =
           IF vector_history # <<>>
             THEN [i \in DOMAIN vector_history |-> np_array(vector_history[i])]
             ELSE <<>>]

\* from_data with validate = False: only student_data["student_id"] can raise
from_data_NoValidate(student_data) ==
  IF "student_id" \notin DOMAIN student_data
    THEN [status |-> "error", message |-> "InvalidSnapshot"]
    ELSE [status |-> "success", student |-> Restore(student_data)]

\* from_data that leaves batch_count as __init__ set it
from_data_NoBatchCount(student_data) ==
  IF required_fields \ DOMAIN student_data # {}
    THEN [status |-> "error", message |-> "InvalidSnapshot"]
    ELSE [status |-> "success",
          student |-> [Restore(student_data) EXCEPT !.batch_count = 0]]

\* StudentModel.from_data: the ValueError of a missing required field, or the
\* restored learner
from_data(student_data) ==
  IF required_fields \ DOMAIN student_data # {}
    THEN [status |-> "error", message |-> "InvalidSnapshot"]
    ELSE [status |-> "success", student |-> Restore(student_data)]

\* export_student_data; the caller keeps the result in place of the previous one
ExportStudentData(id) ==
  IF id \notin DOMAIN students
    THEN /\ last' = Result("export_student_data", id, "error", "UnknownLearner")
         /\ UNCHANGED <<questions, threads, students, heldRecord, sharing, submitted,
                        exportedFrom>>
    ELSE /\ heldRecord' = <<[status |-> "success",
                             student_id |-> id,
                             data |-> export_data(students[id])]>>
         /\ sharing' = {}
         /\ exportedFrom' = <<students[id]>>
         /\ last' = Result("export_student_data", id, "success", "exported")
         /\ UNCHANGED <<questions, threads, students, submitted>>

\* export_all_students
ExportAllStudents ==
  /\ last' =
       [op |-> "export_all_students", id |-> "none", status |-> "success",
        data |-> [id \in DOMAIN students |-> export_data(students[id])],
        student_count |-> Cardinality(DOMAIN students)]
  /\ UNCHANGED <<questions, threads, students, heldRecord, sharing, submitted,
                 exportedFrom>>

\* import_student_data; held tells that student_data is heldRecord's result or
\* its "data", whose question_history list the restored learner then shares
ImportStudentData(student_data, held) ==
  LET actual_data ==
        IF "data" \in DOMAIN student_data THEN student_data.data ELSE student_data
      r == from_data(actual_data)
  IN  IF r.status = "error"
        THEN /\ last' = Result("import_student_data", "none", "error", r.message)
             /\ UNCHANGED <<questions, threads, students, heldRecord, sharing, submitted,
                            exportedFrom>>
        ELSE \E student \in (IF r.student.vector = PyNone
                               THEN initialize_vector_from_mastery(r.student)
                               ELSE {r.student}) :
               LET id == student.student_id
               IN  /\ students' = [j \in DOMAIN students \cup {id} |->
                                     IF j = id THEN student ELSE students[j]]
                   /\ sharing' = IF held THEN sharing \cup {id} ELSE sharing \ {id}
                   /\ submitted' = [j \in DOMAIN submitted \ {id} |-> submitted[j]]
                   /\ last' = [op |-> "import_student_data", id |-> id,
                               status |-> "success",
                               batch_count |-> student.batch_count,
                               total_questions |-> Len(student.question_history)]
                   /\ UNCHANGED <<questions, threads, heldRecord, exportedFrom>>

\* import_all_students: the registry is cleared first, then every entry of the
\* dictionary that from_data accepts is stored under its dictionary key; held
\* tells that the entries are heldRecord's "data"
ImportAllStudents(students_data, held) ==
  LET actual_data ==
        IF "data" \in DOMAIN students_data THEN students_data.data
        ELSE students_data
      restored == {k \in DOMAIN actual_data :
                     from_data(actual_data[k]).status = "success"}
      choices(k) ==
        LET student == from_data(actual_data[k]).student
        IN  IF student.vector = PyNone
              THEN initialize_vector_from_mastery(student)
              ELSE {student}
      error_count == Cardinality(DOMAIN actual_data \ restored)
  IN  \E registry \in [restored -> UNION {choices(k) : k \in restored}] :
        /\ \A k \in restored : registry[k] \in choices(k)
        /\ students' = registry
        /\ sharing' = IF held THEN restored ELSE {}
        /\ submitted' = <<>>
        /\ last' = [op |-> "import_all_students", id |-> "none",
                    status |-> IF error_count = 0 THEN "success" ELSE "partial",
                    success_count |-> Cardinality(restored),
                    error_count |-> error_count]
        /\ UNCHANGED <<questions, threads, heldRecord, exportedFrom>>

\* clear_all_students
ClearAllStudents ==
  /\ students' = <<>>
  /\ sharing' = {}
  /\ submitted' = <<>>
  /\ last' = [op |-> "clear_all_students", id |-> "none", status |-> "success",
              cleared_count |-> Cardinality(DOMAIN students)]
  /\ UNCHANGED <<questions, threads, heldRecord, exportedFrom>>

----------------------------------------------------------------------------
(* submit_answers run by threads.  The code takes no lock, so the calls of
   two threads on one learner interleave between the statements of
   update_from_answers.  A step is one read or one write of a field of the
   StudentModel; the reads of lines 64-71 are taken as one step and the
   normalised vector as one write, so the un-normalised value that line 65
   or 67 stores in between is not modelled. *)

Threads == {"t1", "t2"}

\* a thread that has not called yet
Idle ==
  [pc |-> "idle", id |-> "none", answers |-> <<>>, base |-> <<>>,
   vector |-> PyNone, value |-> 0, i |-> 1, k |-> 1]

RECURSIVE Position(_, _, _)
\* the loops of _update_mastery_scores: the first (answer, KP) position at or
\* after (i, k), <<Len(answers) + 1, 1>> when the loops are over
Position(answers, i, k) ==
  IF i > Len(answers) THEN <<Len(answers) + 1, 1>>
  ELSE IF k > Len(answers[i].knowledge_points)
         THEN Position(answers, i + 1, 1)
         ELSE <<i, k>>

\* the thread at the position pos of the mastery loops
AtPosition(th, pos) ==
  [th EXCEPT !.i = pos[1], !.k = pos[2],
             !.pc = IF pos[1] > Len(th.answers) THEN "line76"
                    ELSE "line104"]

\* the KP item that the mastery loops of the thread are at
CurrentKp(th) == th.answers[th.i].knowledge_points[th.k]

\* submit_answers up to the call of update_from_answers (lines 1185-1224); a
\* call that returns an error is over at once
BeginSubmit(t, id, answers) ==
  /\ threads[t].pc = "idle"
  /\ LET r == ProcessAnswers(answers)
         others == {u \in Threads \ {t} : threads[u].pc # "idle"}
         base == IF others = {} \/ id \notin DOMAIN students
                   THEN IF id \in DOMAIN students THEN <<students[id]>> ELSE <<>>
                   ELSE threads[CHOOSE u \in others : TRUE].base
     IN  IF id \notin DOMAIN students
           THEN /\ last' = Result("submit_answers", id, "error", "UnknownLearner")
                /\ threads' = [threads EXCEPT ![t] = [Idle EXCEPT !.pc = "done"]]
           ELSE IF r.status = "error"
             THEN /\ last' = Result("submit_answers", id, "error", r.message)
                  /\ threads' = [threads EXCEPT ![t] = [Idle EXCEPT !.pc = "done"]]
             ELSE /\ threads' =
                       [threads EXCEPT
                          ![t] = [Idle EXCEPT !.pc = "line64", !.id = id,
                                              !.answers = r.processed,
                                              !.base = base]]
                  /\ UNCHANGED last
  /\ UNCHANGED <<questions, students, heldRecord, sharing, submitted,
                 exportedFrom>>

\* lines 61-71, the reads: batch_count and vector
VectorRead(t) ==
  LET th == threads[t]
      student == students[th.id]
      batch_vector == _compute_batch_vector(th.answers)
      combined ==
        IF student.batch_count = 0
          THEN batch_vector.num
          ELSE AlphaTenths * student.vector.nd * 100 * batch_vector.den
                 + (10 - AlphaTenths) * batch_vector.num
  IN  /\ th.pc = "line64"
      /\ threads' =
           [threads EXCEPT
              ![t] = [th EXCEPT
                        !.pc = "line71",
                        !.vector = NdArray(IF combined # 0 THEN Sign(combined)
                                           ELSE 0)]]
      /\ UNCHANGED <<questions, students, heldRecord, sharing, last, submitted,
                     exportedFrom>>

\* lines 64-71, the write of self.vector
VectorWrite(t) ==
  LET th == threads[t]
  IN  /\ th.pc = "line71"
      /\ students' = [students EXCEPT ![th.id].vector = th.vector]
      /\ threads' = [threads EXCEPT
                       ![t] = AtPosition(th, Position(th.answers, 1, 1))]
      /\ UNCHANGED <<questions, heldRecord, sharing, last, submitted,
                     exportedFrom>>

\* line 104: if kp_id not in self.mastery_scores
MasteryCheck(t) ==
  LET th == threads[t]
  IN  /\ th.pc = "line104"
      /\ threads' =
           [threads EXCEPT
              ![t].pc = IF DictHas(students[th.id].mastery_scores, CurrentKp(th).k)
                          THEN "line109r" ELSE "line105"]
      /\ UNCHANGED <<questions, students, heldRecord, sharing, last, submitted,
                     exportedFrom>>

\* line 105: self.mastery_scores[kp_id] = 0.0
MasteryInsert(t) ==
  LET th == threads[t]
  IN  /\ th.pc = "line105"
      /\ students' =
           [students EXCEPT
              ![th.id].mastery_scores = DictSet(@, CurrentKp(th).k, 0)]
      /\ threads' = [threads EXCEPT ![t].pc = "line109r"]
      /\ UNCHANGED <<questions, heldRecord, sharing, last, submitted,
                     exportedFrom>>

\* lines 109 and 112, the right-hand side: min(1.0, self.mastery_scores[kp_id] + delta)
MasteryRead(t) ==
  LET th == threads[t]
      delta == IF th.answers[th.i].correct THEN DeltaCorrect * CurrentKp(th).v
               ELSE DeltaWrong * CurrentKp(th).v
  IN  /\ th.pc = "line109r"
      /\ threads' =
           [threads EXCEPT
              ![t] = [th EXCEPT
                        !.pc = "line109w",
                        !.value =
                          Min(MasteryOne,
                              DictGet(students[th.id].mastery_scores,
                                      CurrentKp(th).k) + delta)]]
      /\ UNCHANGED <<questions, students, heldRecord, sharing, last, submitted,
                     exportedFrom>>

\* lines 109 and 112, the store into self.mastery_scores[kp_id]
MasteryWrite(t) ==
  LET th == threads[t]
  IN  /\ th.pc = "line109w"
      /\ students' =
           [students EXCEPT
              ![th.id].mastery_scores = DictSet(@, CurrentKp(th).k, th.value)]
      /\ threads' = [threads EXCEPT
                       ![t] = AtPosition(th, Position(th.answers, th.i, th.k + 1))]
      /\ UNCHANGED <<questions, heldRecord, sharing, last, submitted,
                     exportedFrom>>

\* line 76: self.question_history.extend(answers)
ExtendHistory(t) ==
  LET th == threads[t]
  IN  /\ th.pc = "line76"
      /\ students' =
           [students EXCEPT ![th.id].question_history = @ \o th.answers]
      /\ heldRecord' =
           IF th.id \in sharing
             THEN <<[heldRecord[1] EXCEPT
                       !.data.question_history = @ \o th.answers]>>
             ELSE heldRecord
      /\ threads' = [threads EXCEPT ![t].pc = "line77r"]
      /\ UNCHANGED <<questions, sharing, last, submitted, exportedFrom>>

\* line 77, the argument: self.vector.copy()
SnapshotRead(t) ==
  LET th == threads[t]
  IN  /\ th.pc = "line77r"
      /\ threads' = [threads EXCEPT
                       ![t] = [th EXCEPT !.pc = "line77w",
                                         !.vector = students[th.id].vector]]
      /\ UNCHANGED <<questions, students, heldRecord, sharing, last, submitted,
                     exportedFrom>>

\* line 77: self.vector_history.append(...)
SnapshotAppend(t) ==
  LET th == threads[t]
  IN  /\ th.pc = "line77w"
      /\ students' =
           [students EXCEPT ![th.id].vector_history = Append(@, th.vector)]
      /\ threads' = [threads EXCEPT ![t].pc = "line78r"]
      /\ UNCHANGED <<questions, heldRecord, sharing, last, submitted,
                     exportedFrom>>

\* line 78, self.batch_count += 1: the load and the addition
CountRead(t) ==
  LET th == threads[t]
  IN  /\ th.pc = "line78r"
      /\ threads' = [threads EXCEPT
                       ![t] = [th EXCEPT !.pc = "line78w",
                                         !.value = students[th.id].batch_count + 1]]
      /\ UNCHANGED <<questions, students, heldRecord, sharing, last, submitted,
                     exportedFrom>>

\* line 78, self.batch_count += 1: the store
CountWrite(t) ==
  LET th == threads[t]
  IN  /\ th.pc = "line78w"
      /\ students' = [students EXCEPT ![th.id].batch_count = th.value]
      /\ threads' = [threads EXCEPT ![t].pc = "return"]
      /\ UNCHANGED <<questions, heldRecord, sharing, last, submitted,
                     exportedFrom>>

\* submit_answers returns its success result (lines 1227-1234)
ReturnSubmit(t) ==
  LET th == threads[t]
  IN  /\ th.pc = "return"
      /\ last' = Result("submit_answers", th.id, "success", "updated")
      /\ submitted' =
           IF th.id \in DOMAIN submitted
             THEN [submitted EXCEPT
                     ![th.id] = [batches |-> @.batches + 1,
                                 answers |-> @.answers + Len(th.answers)]]
             ELSE submitted
      /\ threads' = [threads EXCEPT ![t].pc = "done"]
      /\ UNCHANGED <<questions, students, heldRecord, sharing, exportedFrom>>

----------------------------------------------------------------------------
(* Spec: one learner id, create_student and submit_answers *)

NoCall == Result("none", "none", "success", "none")

Init ==
  /\ questions = QuestionBank
  /\ students = <<>>
  /\ heldRecord = <<>>
  /\ sharing = {}
  /\ last = NoCall
  /\ submitted = <<>>
  /\ exportedFrom = <<>>
  /\ threads = [t \in Threads |-> Idle]

Create == \E im \in InitialMasteries : CreateStudent("s1", im)

\* the cap on the counters that submit_answers lets grow without bound
WithinBounds(id, answers) ==
  id \in DOMAIN students =>
    /\ students[id].batch_count < MaxBatchCount
    /\ Len(students[id].question_history) + Len(answers) <= MaxHistory

Submit ==
  \E answers \in Batches :
    WithinBounds("s1", answers) /\ SubmitAnswers("s1", answers)

Next == Create \/ Submit

Spec == Init /\ [][Next]_vars

----------------------------------------------------------------------------
(* SpecErr: one learner id, create_student and submit_answers on batches that
   hold unknown qids, letters outside A..D and malformed answers *)

ErrCreate ==
  \E im \in {<<>>, << <<Pair("K1", 90)>> >>} : CreateStudent("s1", im)

ErrSubmit ==
  \E answers \in ErrBatches :
    WithinBounds("s1", answers) /\ SubmitAnswers("s1", answers)

ErrNext == ErrCreate \/ ErrSubmit

SpecErr == Init /\ [][ErrNext]_vars

----------------------------------------------------------------------------
(* SpecPersist: create_student and submit_answers for "s1", export, clear and
   import of the exported result, import of records a caller wrote *)

\* a record without one of its fields
Without(rec, field) == [g \in DOMAIN rec \ {field} |-> rec[g]]

\* a complete learner record, as export_data writes it
FullRecord ==
  [student_id |-> "s2",
   mastery_scores |-> <<Pair("K2", 60)>>,
   question_history |-> <<>>,
   batch_count |-> 0,
   version |-> "1.1",
   vector |-> PyList(1),
   vector_history |-> <<PyList(1)>>]

\* a record of a learner with two batches whose vector is null
NullVectorRecord ==
  [student_id |-> "s2",
   mastery_scores |-> <<Pair("K2", 60)>>,
   question_history |-> <<OldAnswer("Q1", TRUE, <<Pair("K1", 10)>>),
                          OldAnswer("Q2", FALSE, <<Pair("K2", 5)>>)>>,
   batch_count |-> 2,
   version |-> "1.1",
   vector |-> PyNone,
   vector_history |-> <<PyList(1), PyList(1), PyList(1)>>]

\* records passed to import_student_data by a caller
InputRecords ==
  { FullRecord,
    [student_id |-> "s2", mastery_scores |-> <<>>, question_history |-> <<>>],
    Without(FullRecord, "student_id"),
    Without(FullRecord, "mastery_scores"),
    Without(FullRecord, "question_history"),
    [status |-> "success", student_id |-> "s2",
     data |-> Without(FullRecord, "question_history")],
    NullVectorRecord }

PersistBatches ==
  { <<NewAnswer("Q1", "A")>>,
    <<NewAnswer("Q1", "A"), NewAnswer("Q3", "A")>> }

\* the two forms in which the caller can pass what export_student_data returned
HeldForms ==
  IF heldRecord = <<>> THEN {} ELSE {heldRecord[1], heldRecord[1].data}

PersistCreate ==
  \E im \in {<<>>, << <<Pair("K1", 90)>> >>} : CreateStudent("s1", im)

PersistSubmit ==
  \E answers \in PersistBatches :
    WithinBounds("s1", answers) /\ SubmitAnswers("s1", answers)

Export == ExportStudentData("s1")

ImportHeld == \E student_data \in HeldForms : ImportStudentData(student_data, TRUE)

ImportRecord ==
  \E student_data \in InputRecords : ImportStudentData(student_data, FALSE)

Status == GetStudentStatus("s1")

PersistNext ==
  \/ PersistCreate
  \/ PersistSubmit
  \/ Export
  \/ ClearAllStudents
  \/ ImportHeld
  \/ ImportRecord
  \/ Status

SpecPersist == Init /\ [][PersistNext]_vars

----------------------------------------------------------------------------
(* SpecGrade: check_answers on a bank whose first question has any four
   option strings and any of them as its answer *)

OptionTexts == {"x", "y", "z", "w"}

Letters == {"A", "B", "C", "D", "a", "b", "c", "d", "E"}

GradeQuestions ==
  { Question("Q1", options, options[i], <<Pair("K1", 10)>>) :
      options \in [1..4 -> OptionTexts], i \in 1..4 }

GradeSubmissions ==
  {<<NewAnswer("Q1", letter)>> : letter \in Letters}
    \cup { <<NewAnswer("Q999", "A")>>,
           <<NewAnswer("Q2", "b"), NewAnswer("Q1", "A")>> }

GradeInit ==
  /\ questions \in {<<q>> \o Tail(QuestionBank) : q \in GradeQuestions}
  /\ students = <<>>
  /\ heldRecord = <<>>
  /\ sharing = {}
  /\ last = NoCall
  /\ submitted = <<>>
  /\ exportedFrom = <<>>
  /\ threads = [t \in Threads |-> Idle]

GradeCheck == \E answer_submissions \in GradeSubmissions : CheckAnswers(answer_submissions)

GradeNext == GradeCheck

SpecGrade == GradeInit /\ [][GradeNext]_vars

----------------------------------------------------------------------------
(* SpecRec: create_student and one-answer batches for "s1", up to the batch
   count at which recommendations mix strategies, and get_recommendations *)

RecMasteries ==
  { <<>>,
    << <<>> >>,
    << <<Pair("K1", 90)>> >>,
    << <<Pair("K2", 60), Pair("K1", 35), Pair("K3", 40)>> >>,
    << <<Pair("K9", 90)>> >> }     \* a KP that has no embedding

RecBatches ==
  { <<NewAnswer("Q1", "A")>>,      \* correct
    <<NewAnswer("Q2", "a")>>,      \* wrong
    <<OldAnswer("Q3", TRUE, <<Pair("K4", 8)>>)>> }

RecCreate == \E im \in RecMasteries : CreateStudent("s1", im)

RecSubmit ==
  \E answers \in RecBatches :
    /\ "s1" \in DOMAIN students
    /\ students["s1"].batch_count <= MaxBatchCount
    /\ Len(students["s1"].question_history) <= MaxHistory
    /\ SubmitAnswers("s1", answers)

Recommend == \E n \in 0..MaxQuestions : GetRecommendations("s1", n)

RecNext == RecCreate \/ RecSubmit \/ Recommend

SpecRec == Init /\ [][RecNext]_vars

----------------------------------------------------------------------------
(* SpecConc: a learner "s1", at most one batch submitted alone, then one
   submit_answers call per thread, interleaved, and get_student_status at
   any point *)

ConcMasteries == { <<>>, << <<Pair("K1", 90)>> >> }

ConcBatches ==
  { <<NewAnswer("Q1", "A")>>,      \* correct, K1
    <<NewAnswer("Q2", "a")>> }     \* wrong, K2 and K3

AllIdle == \A t \in Threads : threads[t].pc = "idle"

ConcCreate ==
  /\ AllIdle
  /\ "s1" \notin DOMAIN students
  /\ \E im \in ConcMasteries : CreateStudent("s1", im)

ConcSubmit ==
  /\ AllIdle
  /\ "s1" \in DOMAIN students
  /\ students["s1"].batch_count = 0
  /\ \E answers \in ConcBatches : SubmitAnswers("s1", answers)

ConcBegin ==
  \E t \in Threads, answers \in ConcBatches :
    "s1" \in DOMAIN students /\ BeginSubmit(t, "s1", answers)

ConcStatus == "s1" \in DOMAIN students /\ GetStudentStatus("s1")

ConcNext ==
  \/ ConcCreate
  \/ ConcSubmit
  \/ ConcBegin
  \/ \E t \in Threads : VectorRead(t)
  \/ \E t \in Threads : VectorWrite(t)
  \/ \E t \in Threads : MasteryCheck(t)
  \/ \E t \in Threads : MasteryInsert(t)
  \/ \E t \in Threads : MasteryRead(t)
  \/ \E t \in Threads : MasteryWrite(t)
  \/ \E t \in Threads : ExtendHistory(t)
  \/ \E t \in Threads : SnapshotRead(t)
  \/ \E t \in Threads : SnapshotAppend(t)
  \/ \E t \in Threads : CountRead(t)
  \/ \E t \in Threads : CountWrite(t)
  \/ \E t \in Threads : ReturnSubmit(t)
  \/ ConcStatus

SpecConc == Init /\ [][ConcNext]_vars

----------------------------------------------------------------------------
(* SpecFrame: every operation of the engine on the learner "s1": create,
   submit, the reading operations, export, import of the exported result
   and clear *)

FrameBatches ==
  { <<NewAnswer("Q1", "A")>>,      \* correct
    <<NewAnswer("Q2", "a")>> }     \* wrong

FrameSubmit ==
  \E answers \in FrameBatches :
    /\ "s1" \in DOMAIN students =>
         /\ students["s1"].batch_count + 1 < MaxBatchCount
         /\ Len(students["s1"].question_history) + Len(answers) < MaxHistory
    /\ SubmitAnswers("s1", answers)

FrameRecommend == \E n \in {1, MaxQuestions} : GetRecommendations("s1", n)

FrameCheck ==
  \E answer_submissions \in {<<NewAnswer("Q1", "A")>>, <<NewAnswer("Q2", "C")>>} :
    CheckAnswers(answer_submissions)

FrameImport ==
  heldRecord # <<>> /\ ImportStudentData(heldRecord[1], TRUE)

FrameNext ==
  \/ CreateStudent("s1", <<>>)
  \/ FrameSubmit
  \/ FrameRecommend
  \/ FrameCheck
  \/ GetWeakKnowledgePoints("s1", 30)
  \/ GetStudentStatus("s1")
  \/ ExportStudentData("s1")
  \/ ExportAllStudents
  \/ GetStudentsList
  \/ FrameImport
  \/ ClearAllStudents

SpecFrame == Init /\ [][FrameNext]_vars

----------------------------------------------------------------------------
(* SpecRegistry: the operations of the engine on the ids "s1" and "s2":
   create, submit, the reading operations, export, import of the exported
   result, import_all of a dictionary, list and clear *)

RegistryIds == {"s1", "s2"}

\* the dictionaries passed to import_all_students: what was exported, under
\* its own id, and dictionaries a caller wrote
RegistryDictionaries ==
  { ("s2" :> FullRecord),
    ("s1" :> FullRecord),
    ("s2" :> Without(FullRecord, "mastery_scores")) }

RegistrySubmit ==
  \E id \in RegistryIds :
    /\ id \in DOMAIN students =>
         /\ students[id].batch_count + 2 < MaxBatchCount
         /\ students[id].question_history = <<>>
    /\ SubmitAnswers(id, <<NewAnswer("Q1", "A")>>)

RegistryImportAll ==
  \/ /\ heldRecord # <<>>
     /\ ImportAllStudents(
          [data |-> (heldRecord[1].student_id :> heldRecord[1].data)], TRUE)
  \/ \E students_data \in RegistryDictionaries :
       ImportAllStudents(students_data, FALSE)

RegistryNext ==
  \/ \E id \in RegistryIds : CreateStudent(id, <<>>)
  \/ RegistrySubmit
  \/ \E id \in RegistryIds : GetRecommendations(id, 1)
  \/ \E id \in RegistryIds : GetWeakKnowledgePoints(id, 30)
  \/ \E id \in RegistryIds : GetStudentStatus(id)
  \/ \E id \in RegistryIds : ExportStudentData(id)
  \/ heldRecord # <<>> /\ ImportStudentData(heldRecord[1], TRUE)
  \/ RegistryImportAll
  \/ GetStudentsList
  \/ ClearAllStudents

SpecRegistry == Init /\ [][RegistryNext]_vars

----------------------------------------------------------------------------
(* Claims checked under Spec *)

Registered(id) == id \in DOMAIN students

Scores(student) == {student.mastery_scores[i].v : i \in DOMAIN student.mastery_scores}

IsNewFormat(answer) == "qid" \in DOMAIN answer /\ "selected" \in DOMAIN answer

\* every answer is in one of the two formats submit_answers accepts
WellFormed(answers) ==
  \A i \in DOMAIN answers :
    \/ IsNewFormat(answers[i])
    \/ {"qid", "correct", "knowledge_points"} \subseteq DOMAIN answers[i]

WellFormedBatches == {answers \in ErrBatches : WellFormed(answers)}

\* C1: for every learner made by create_student (initial scores in [0,1]) and
\* updated by any accepted batches, every mastery score lies in [0, 1].
C1_MasteryBounds ==
  \A id \in DOMAIN students :
    \A v \in Scores(students[id]) : 0 <= v /\ v <= MasteryOne

\* C1 witness: one answered batch has taken a score of 0.9 to the cap of 1.0.
C1_Witness ==
  \E id \in DOMAIN students :
    /\ students[id].batch_count = 1
    /\ Len(students[id].question_history) = 1
    /\ students[id].mastery_scores = <<Pair("K1", MasteryOne)>>

\* C2: for a learner made by create_student, after k accepted batches
\* len(vector_history) = batch_count + 1, batch_count = k and
\* len(question_history) is the total number of answers of those batches.
C2_HistoryConsistency ==
  \A id \in DOMAIN submitted :
    /\ id \in DOMAIN students
    /\ Len(students[id].vector_history) = students[id].batch_count + 1
    /\ students[id].batch_count = submitted[id].batches
    /\ Len(students[id].question_history) = submitted[id].answers

\* C2 witness: two batches, three answers.
C2_Witness ==
  \E id \in DOMAIN submitted :
    /\ students[id].batch_count = 2
    /\ Len(students[id].question_history) = 3

\* some {qid, selected} answer of the batch names a qid that is not in the bank
NamesUnknownQuestion(answers) ==
  \E i \in DOMAIN answers :
    IsNewFormat(answers[i]) /\ get_question_by_id(answers[i].qid) = <<>>

\* C4: submit_answers on a batch of well-formed answers one of which, at any
\* position, names a qid absent from the bank returns the UnknownQuestion
\* error and leaves the registry, hence the learner, as it was.
C4_UnknownQuestionRejected ==
  [][\A id \in StudentIds : \A answers \in WellFormedBatches :
       (/\ last'.op = "submit_answers"
        /\ Registered(id)
        /\ NamesUnknownQuestion(answers)
        /\ SubmitAnswers(id, answers))
       => (/\ last'.status = "error"
           /\ last'.message = "UnknownQuestion"
           /\ students' = students
           /\ heldRecord' = heldRecord)]_vars

\* C4 witness: the error is returned to a learner that has a batch on record.
C4_Witness ==
  /\ last.op = "submit_answers"
  /\ last.status = "error"
  /\ last.message = "UnknownQuestion"
  /\ Registered(last.id)
  /\ students[last.id].batch_count >= 1
  /\ Len(students[last.id].question_history) >= 1

\* C5 (as claimed): create_student on an id already in the registry returns
\* AlreadyExists and leaves that learner unchanged.
C5_CreateRejectsDuplicate ==
  [][\A id \in StudentIds : \A im \in InitialMasteries :
       (Registered(id) /\ CreateStudent(id, im))
       => (/\ last'.status = "error"
           /\ last'.message = "AlreadyExists"
           /\ students'[id] = students[id])]_vars

\* some {qid, selected} answer of the batch selects a letter outside A..D
HasBadLetter(answers) ==
  \E i \in DOMAIN answers :
    IsNewFormat(answers[i]) /\ Upper(answers[i].selected) \notin {"A", "B", "C", "D"}

C9_EmptyBatchRejected ==
  [][\A id \in StudentIds :
       (last'.op = "submit_answers" /\ Registered(id) /\ SubmitAnswers(id, <<>>))
       => (/\ last'.status = "error"
           /\ last'.message = "EmptyBatch"
           /\ students' = students)]_vars

\* C18: the vector of every registered learner, after create_student and
\* after every update_from_answers, is the zero vector or has norm 1 (in one
\* dimension: its square is 0 or 1).
C18_VectorZeroOrUnit ==
  \A id \in DOMAIN students :
    /\ students[id].vector # PyNone
    /\ students[id].vector.nd * students[id].vector.nd \in {0, 1}

\* C18 witness: a second batch whose vector points against the learner's
\* vector (Q3 answered wrong: K3 pulls to -1) was blended in, 0.7 to 0.3, and
\* the result was brought back to norm 1.
C18_Witness ==
  /\ "s1" \in DOMAIN students
  /\ students["s1"].batch_count = 2
  /\ students["s1"].vector_history[2] = NdArray(1)
  /\ students["s1"].vector = NdArray(1)
  /\ LET h == students["s1"].question_history
     IN  h[Len(h)].qid = "Q3" /\ ~h[Len(h)].correct
  /\ _compute_batch_vector(<<students["s1"].question_history[
                               Len(students["s1"].question_history)]>>).num < 0

\* C23: every qid recorded in a learner's question_history is the qid of a
\* question of the bank, whichever of the two answer formats the batches
\* used.
C23_HistoryQidsInBank ==
  \A id \in DOMAIN students :
    \A i \in DOMAIN students[id].question_history :
      get_question_by_id(students[id].question_history[i].qid) # <<>>

\* C27: a submit_answers step removes no KP from a learner's mastery map and
\* lowers no score, so a learner that has a KP with mastery >= 0.1 (the
\* strategy path of get_recommendations) has one after the step.
C27_NeverBackToColdStart ==
  [][last'.op = "submit_answers" =>
       \A id \in DOMAIN students :
         /\ id \in DOMAIN students'
         /\ \A i \in DOMAIN students[id].mastery_scores :
              /\ i \in DOMAIN students'[id].mastery_scores
              /\ students'[id].mastery_scores[i].k = students[id].mastery_scores[i].k
              /\ students'[id].mastery_scores[i].v >= students[id].mastery_scores[i].v
         /\ (\E i \in DOMAIN students[id].mastery_scores :
               students[id].mastery_scores[i].v >= 10)
              => \E i \in DOMAIN students'[id].mastery_scores :
                   students'[id].mastery_scores[i].v >= 10]_vars

\* C27 witness: a learner on the strategy path whose second batch ended with
\* a wrong answer on a KP it holds, and a score that stands at 1.0.
C27_Witness ==
  /\ "s1" \in DOMAIN students
  /\ last.op = "submit_answers"
  /\ last.status = "success"
  /\ students["s1"].batch_count >= 2
  /\ LET h == students["s1"].question_history
     IN  /\ h # <<>>
         /\ ~h[Len(h)].correct
         /\ \A i \in DOMAIN h[Len(h)].knowledge_points :
              DictHas(students["s1"].mastery_scores, h[Len(h)].knowledge_points[i].k)
  /\ \E i \in DOMAIN students["s1"].mastery_scores :
       students["s1"].mastery_scores[i].v = MasteryOne

----------------------------------------------------------------------------
(* Claims checked under SpecPersist *)

\* C6: importing what export_student_data returned for a learner L (made by
\* create_student and any accepted batches), after clear_all_students, gives a
\* learner with L's mastery, batch_count, question_history and
\* vector_history, for which get_student_status reports L's batch_count,
\* mastery and mastered set.
C6_ExportClearImportRoundTrip ==
  [][\A student_data \in HeldForms :
       (/\ last.op = "clear_all_students"
        /\ last'.op = "import_student_data"
        /\ heldRecord[1].data = export_data(exportedFrom[1])
        /\ ImportStudentData(student_data, TRUE))
       => LET L == exportedFrom[1]
              id == L.student_id
          IN  /\ last'.status = "success"
              /\ DOMAIN students' = {id}
              /\ students'[id].mastery_scores = L.mastery_scores
              /\ students'[id].batch_count = L.batch_count
              /\ students'[id].question_history = L.question_history
              /\ students'[id].vector_history = L.vector_history
              /\ StatusOf(id, students'[id]).batch_count = StatusOf(id, L).batch_count
              /\ StatusOf(id, students'[id]).mastery_scores
                   = StatusOf(id, L).mastery_scores
              /\ StatusOf(id, students'[id]).mastered_knowledge_points
                   = StatusOf(id, L).mastered_knowledge_points]_vars

\* C6 witness: a learner of two batches and a mastered KP is back in a registry
\* that holds nothing else, restored from the exported result.
C6_Witness ==
  /\ last.op = "import_student_data"
  /\ last.status = "success"
  /\ exportedFrom # <<>>
  /\ DOMAIN students = {last.id}
  /\ DOMAIN submitted = {}
  /\ sharing = {last.id}
  /\ students[last.id].batch_count = 2
  /\ Len(students[last.id].question_history) = 3
  /\ Len(students[last.id].vector_history) = 3
  /\ get_mastered_knowledge_points(students[last.id], MasteredThreshold) # <<>>
  /\ students[last.id].mastery_scores = exportedFrom[1].mastery_scores

\* the learner record inside student_data lacks a required field
LacksRequired(student_data) ==
  LET actual_data ==
        IF "data" \in DOMAIN student_data THEN student_data.data ELSE student_data
  IN  \E field \in {"student_id", "mastery_scores", "question_history"} :
        field \notin DOMAIN actual_data

\* C10: import_student_data of a record that lacks student_id, mastery_scores
\* or question_history returns the InvalidSnapshot error and leaves the
\* registry, its ids and its learners, as it was.
C10_InvalidSnapshotRejected ==
  [][\A student_data \in InputRecords :
       (/\ last'.op = "import_student_data"
        /\ LacksRequired(student_data)
        /\ ImportStudentData(student_data, FALSE))
       => (/\ last'.status = "error"
           /\ last'.message = "InvalidSnapshot"
           /\ students' = students)]_vars

\* C10 witness: the error is returned while a learner with a batch is registered.
C10_Witness ==
  /\ last.op = "import_student_data"
  /\ last.status = "error"
  /\ last.message = "InvalidSnapshot"
  /\ \E id \in DOMAIN students : students[id].batch_count >= 1

\* C24: a learner that import_student_data restores from a record whose
\* vector is null has a vector afterwards and as many vector_history entries
\* as batch_count + 1.
C24_NullVectorImportKeepsHistory ==
  [][\A student_data \in InputRecords :
       (/\ "vector" \in DOMAIN student_data
        /\ student_data.vector = PyNone
        /\ ImportStudentData(student_data, FALSE))
       => LET student == students'[student_data.student_id]
          IN  /\ student.vector # PyNone
              /\ Len(student.vector_history) = student.batch_count + 1]_vars

\* C29: the record that export_student_data returned, kept by the caller,
\* is changed by no later operation: not by batches submitted to the learner
\* it was exported from, not by batches submitted to a learner imported from
\* it; only a new export replaces it.
C29_ExportedRecordIndependent ==
  [][last'.op # "export_student_data" => heldRecord' = heldRecord]_vars

----------------------------------------------------------------------------
(* Claims checked under SpecGrade *)

\* the last call graded one {qid, selected} answer on a letter of A..D, in
\* either case, against a question of the bank
GradedOneLetter ==
  /\ last.op = "check_answers"
  /\ Len(last.args) = 1
  /\ last.details[1].status = "success"
  /\ Upper(last.args[1].selected) \in {"A", "B", "C", "D"}

GradedQuestion == get_question_by_id(last.args[1].qid)[1]

\* the position that the selected letter names
GradedPosition ==
  CHOOSE i \in 1..4 : Chr65(i) = Upper(last.args[1].selected)

\* C7 (as claimed): the letter of a position that holds the stored correct
\* option text grades is_correct = true and each of the three other letters
\* grades is_correct = false, in either letter case.
C7_OtherLettersGradeFalse ==
  GradedOneLetter =>
    \A i \in 1..4 :
      GradedQuestion.options[i] = GradedQuestion.answer =>
        last.details[1].is_correct = (GradedPosition = i)

\* C7 (amended): a letter, in either case, grades is_correct = true when its
\* position holds the stored correct option text, and is_correct = false
\* when the text at its position differs from it.
C7_GradesByOptionText ==
  GradedOneLetter =>
    last.details[1].is_correct
      = (GradedQuestion.options[GradedPosition] = GradedQuestion.answer)

\* C7 witness: the answer text stands at positions A and C; a lower-case "c"
\* is graded correct.
C7_Witness ==
  /\ GradedOneLetter
  /\ last.args[1].selected = "c"
  /\ GradedQuestion.options[1] = GradedQuestion.answer
  /\ GradedQuestion.options[3] = GradedQuestion.answer
  /\ GradedQuestion.options[2] # GradedQuestion.answer
  /\ last.details[1].is_correct

----------------------------------------------------------------------------
(* Claims checked under SpecRec *)

\* C3: no qid that get_recommendations returns is in the learner's
\* question_history, on the cold-start path, on the single-strategy path and
\* on the mixed-strategy path with its top-up, after any batches.
C3_RecommendationsNotAttempted ==
  (last.op = "get_recommendations" /\ last.status = "success")
    => \A i \in DOMAIN last.recommendations :
         \A j \in DOMAIN students[last.id].question_history :
           last.recommendations[i].qid # students[last.id].question_history[j].qid

\* C3 witness: a mixed-strategy recommendation with a topped-up question,
\* made for a learner that has answered questions.
C3_Witness ==
  /\ last.op = "get_recommendations"
  /\ last.status = "success"
  /\ students[last.id].batch_count > 3
  /\ students[last.id].question_history # <<>>
  /\ \E i \in DOMAIN last.recommended :
       /\ "strategy_source" \in DOMAIN last.recommended[i]
       /\ last.recommended[i].strategy_source = "supplement"

\* the learner has no KP with mastery >= 0.1
NoMasteredKp(student) ==
  \A i \in DOMAIN student.mastery_scores : student.mastery_scores[i].v < 10

\* the bank's questions that touch K1, K2 or K3 and are not in the learner's
\* question_history, in bank order
IntroductoryOpen(student) ==
  SelectSeq(questions,
            LAMBDA q :
              /\ \E i \in DOMAIN q.knowledge_points :
                   q.knowledge_points[i].k \in {"K1", "K2", "K3"}
              /\ \A j \in DOMAIN student.question_history :
                   student.question_history[j].qid # q.qid)

\* C11: when no KP of the learner has mastery >= 0.1, get_recommendations(id, n)
\* succeeds and returns exactly the first min(n, m) of the m questions that
\* touch K1, K2 or K3 and are not in question_history, in bank order.
C11_ColdStartContract ==
  (/\ last.op = "get_recommendations"
   /\ last.status # "error"
   /\ NoMasteredKp(students[last.id]))
    => LET open == IntroductoryOpen(students[last.id])
           k == IF last.num_questions < Len(open)
                  THEN last.num_questions ELSE Len(open)
       IN  /\ last.status = "success"
           /\ Len(last.recommendations) = k
           /\ \A i \in 1..k : last.recommendations[i].qid = open[i].qid

\* C11 witness: a cold-start learner that has answered a question asks for 3
\* questions and gets the 2 open introductory ones; the bank has another
\* open question, which touches K8 only.
C11_Witness ==
  /\ last.op = "get_recommendations"
  /\ last.status = "success"
  /\ NoMasteredKp(students[last.id])
  /\ students[last.id].question_history # <<>>
  /\ last.num_questions = 3
  /\ Len(last.recommendations) = 2
  /\ \E i \in DOMAIN questions :
       /\ questions[i].qid = "Q7"
       /\ \A j \in DOMAIN students[last.id].question_history :
            students[last.id].question_history[j].qid # "Q7"

\* C12: for every learner in the registry, whatever its mastery map (KPs
\* without an embedding included), get_recommendations returns a success
\* result; it never raises and never returns an error.
C12_RecommendationAlwaysSucceeds ==
  (last.op = "get_recommendations" /\ last.id \in DOMAIN students)
    => last.status = "success"

\* the order in which a tie of the highest score is to be decided
StrategyPriority == <<"gap_filling", "expansion", "consolidation", "balanced">>

\* the place of a strategy in that order
PriorityRank(strategy) ==
  CHOOSE i \in DOMAIN StrategyPriority : StrategyPriority[i] = strategy

\* the learner's strategy_scores hold a tie of expansion and consolidation at
\* the top
TopTie(student) ==
  LET learning_state == _analyze_student_learning_state(student)
      scores == strategy_scores(learning_state)
  IN  /\ Len(learning_state.weak_points) + Len(learning_state.mastered_points)
           + Len(learning_state.moderate_points) > 0
      /\ DictGet(scores, "expansion") = DictGet(scores, "consolidation")
      /\ \A i \in DOMAIN scores : scores[i].v <= DictGet(scores, "expansion")

\* C19: for every learner with at least one weak, moderate or mastered KP,
\* _determine_recommendation_strategy returns a strategy of the highest
\* score, and among the strategies of that score the first in the order
\* gap_filling, expansion, consolidation, balanced.
C19_SelectorPriority ==
  \A id \in DOMAIN students :
    LET learning_state == _analyze_student_learning_state(students[id])
        scores == strategy_scores(learning_state)
        best == _determine_recommendation_strategy(learning_state)
    IN  Len(learning_state.weak_points) + Len(learning_state.mastered_points)
          + Len(learning_state.moderate_points) > 0
        => \A i \in DOMAIN scores :
             /\ scores[i].v <= DictGet(scores, best)
             /\ scores[i].v = DictGet(scores, best)
                  => PriorityRank(best) <= PriorityRank(scores[i].k)

\* the ratio table of the mixed mode as the claim C20 gives it, in tenths: the
\* row of the primary strategy
RatioTable(primary) ==
  CASE primary = "gap_filling" ->
         {Pair("gap_filling", 6), Pair("consolidation", 3), Pair("balanced", 1)}
    [] primary = "expansion" ->
         {Pair("gap_filling", 2), Pair("expansion", 6), Pair("balanced", 2)}
    [] primary = "consolidation" ->
         {Pair("gap_filling", 3), Pair("consolidation", 5), Pair("expansion", 2)}
    [] OTHER ->
         {Pair("gap_filling", 2), Pair("consolidation", 3), Pair("expansion", 1),
          Pair("balanced", 4)}

\* the learner is served in mixed mode: not a cold start, more than 3 batches
MixedMode(student) ==
  /\ get_mastered_knowledge_points(student, 10) # <<>>
  /\ student.batch_count > 3

\* C20: for every learner served in mixed mode, the strategies that receive
\* an allocation and their ratios are the row of the primary strategy in the
\* ratio table; with primary = expansion: gap_filling 0.2, expansion 0.6,
\* balanced 0.2 and nothing for consolidation.
C20_MixedRatiosFollowTable ==
  \A id \in DOMAIN students :
    LET student == students[id]
        primary == _determine_recommendation_strategy(
                     _analyze_student_learning_state(student))
    IN  MixedMode(student) =>
          /\ Range(strategy_ratios(primary)) = RatioTable(primary)
          /\ \A n \in 1..MaxQuestions :
               {a.k : a \in Range(strategy_allocations(primary, n))}
                 \subseteq {r.k : r \in RatioTable(primary)}

\* C21: the list one get_recommendations call returns holds no qid twice and
\* at most num_questions items, on the single-strategy path and in mixed
\* mode.
C21_NoDuplicateRecommendation ==
  (last.op = "get_recommendations" /\ last.status = "success")
    => /\ Len(last.recommendations) <= last.num_questions
       /\ \A i, j \in DOMAIN last.recommendations :
            last.recommendations[i].qid = last.recommendations[j].qid => i = j

\* C22: a get_recommendations call that follows another one for the same
\* learner, in the same learner state and with the same num_questions,
\* returns the same questions in the same order: the result does not depend
\* on the calls made before.
C22_RecommendationRepeatable ==
  [][(/\ last.op = "get_recommendations" /\ last.status = "success"
      /\ last'.op = "get_recommendations" /\ last'.status = "success"
      /\ last'.id = last.id
      /\ last'.num_questions = last.num_questions
      /\ students' = students)
       => last'.recommendations = last.recommendations]_vars

\* the KPs kps are, of the scored KPs of pool, those of the lowest scores
LowestOf(kps, pool) ==
  \A i \in DOMAIN kps : \A e \in Range(pool) :
    e.k \notin Range(kps) => DictGet(pool, kps[i]) <= e.v

\* the KPs kps, all of pool, are in ascending order of their scores
AscendingIn(kps, pool) ==
  \A i, j \in DOMAIN kps : i < j => DictGet(pool, kps[i]) <= DictGet(pool, kps[j])

\* C25: for every learner, the moderate KPs that consolidation targets (up
\* to 3) are those of the lowest scores, lowest first; the moderate KPs that
\* balanced targets (up to 2) are those of the lowest scores and the mastered
\* KP it adds is one of the highest score.
C25_TargetsByScore ==
  \A id \in DOMAIN students :
    LET student == students[id]
        learning_state == _analyze_student_learning_state(student)
        moderate_points == learning_state.moderate_points
        consolidation == consolidation_targets(learning_state)
        balanced == balanced_targets(learning_state)
        w == IF learning_state.weak_points # <<>> THEN 1 ELSE 0
        m == Min(2, Len(moderate_points))
    IN  /\ LowestOf(Take(consolidation, Min(3, Len(moderate_points))),
                    moderate_points)
        /\ AscendingIn(Take(consolidation, Min(3, Len(moderate_points))),
                       moderate_points)
        /\ LowestOf(SubSeq(balanced, w + 1, w + m), moderate_points)
        /\ Len(balanced) > w + m =>
             \A i \in DOMAIN learning_state.mastered_points :
               get_mastery_level(student, learning_state.mastered_points[i])
                 <= get_mastery_level(student, balanced[Len(balanced)])

\* C26: for every learner, the targets of gap_filling are distinct weak KPs,
\* and there are 3 of them whenever the learner has at least 3 weak KPs.
C26_GapFillingPadsToThree ==
  \A id \in DOMAIN students :
    LET learning_state == _analyze_student_learning_state(students[id])
        weak_points == learning_state.weak_points
        target_kps == gap_filling_targets(learning_state)
    IN  /\ Range(target_kps) \subseteq Range(Keys(weak_points))
        /\ \A i, j \in DOMAIN target_kps : target_kps[i] = target_kps[j] => i = j
        /\ Len(weak_points) >= 3 => Len(target_kps) = 3

\* the bank holds a question that the learner has not attempted and that
\* touches a KP of the learner's mastery map
OpenQuestionOnOwnKp(student) ==
  \E i \in DOMAIN questions :
    /\ \A j \in DOMAIN student.question_history :
         student.question_history[j].qid # questions[i].qid
    /\ \E k \in DOMAIN questions[i].knowledge_points :
         DictHas(student.mastery_scores, questions[i].knowledge_points[k].k)

\* C28: get_recommendations with num_questions >= 1, for a learner that is
\* not in cold start, has batch_count <= 3 and an unattempted question on one
\* of its KPs in the bank, returns at least one question.
C28_SingleStrategyFindsQuestion ==
  (/\ last.op = "get_recommendations"
   /\ last.status = "success"
   /\ last.num_questions >= 1
   /\ ~NoMasteredKp(students[last.id])
   /\ students[last.id].batch_count <= 3
   /\ OpenQuestionOnOwnKp(students[last.id]))
    => last.recommendations # <<>>

----------------------------------------------------------------------------
(* Claims checked under SpecConc *)

\* both threads have made their submit_answers call on the learner id
BothReturned(id) ==
  \A t \in Threads : threads[t].pc = "done" /\ threads[t].id = id

\* the learner after the batches of threads t and u, run one after the other
Serial(t, u) ==
  update_from_answers(update_from_answers(threads[t].base[1], threads[t].answers),
                      threads[u].answers)

\* C13: when two submit_answers calls for one learner run on different
\* threads, the final state is that of the two batches run in some serial
\* order: batch_count has grown by 2, vector_history by 2 entries,
\* question_history holds each batch contiguously in that order and
\* len(vector_history) = batch_count + 1.
C13_ConcurrentSubmitsSerialize ==
  BothReturned("s1")
    => /\ students["s1"] \in {Serial("t1", "t2"), Serial("t2", "t1")}
       /\ students["s1"].batch_count = threads["t1"].base[1].batch_count + 2
       /\ Len(students["s1"].vector_history)
            = students["s1"].batch_count + 1

\* the threads whose submit_answers call on the learner id has begun
Started(id) == {t \in Threads : threads[t].pc # "idle" /\ threads[t].id = id}

\* the states of the learner id in which every batch is either wholly applied
\* or not at all
Committed(id) ==
  IF Started(id) = {} THEN {students[id]}
  ELSE LET base == threads[CHOOSE t \in Started(id) : TRUE].base[1]
       IN  {base}
             \cup {update_from_answers(base, threads[t].answers) : t \in Started(id)}
             \cup {Serial(t, u) : t, u \in Started(id)}

\* C14: update_from_answers is all-or-nothing: a get_student_status that runs
\* while submit_answers calls are in flight sees the learner with each batch
\* either wholly applied to vector, mastery, question_history,
\* vector_history and batch_count, or not applied at all.
C14_UpdateAllOrNothing ==
  (last.op = "get_student_status" /\ last.status = "success")
    => last \in {StatusOf(last.id, s) : s \in Committed(last.id)}

----------------------------------------------------------------------------
(* Claims checked under SpecFrame *)

\* the operations that only read
ReadingOperations ==
  {"get_recommendations", "check_answers", "get_weak_knowledge_points",
   "get_student_status", "export_student_data", "export_all_students",
   "get_students_list"}

\* the operations that name a learner that has to exist
LearnerOperations ==
  {"get_recommendations", "submit_answers", "get_weak_knowledge_points",
   "get_student_status", "export_student_data"}

\* C15: get_recommendations, check_answers, get_weak_knowledge_points,
\* get_student_status, export_student_data, export_all_students and
\* get_students_list leave every learner (mastery, vector, question_history,
\* vector_history, batch_count), the id set of the registry and the question
\* bank as they were; of the operations that name an existing learner only
\* submit_answers changes it.
C15_ReadOperationsChangeNothing ==
  [][/\ last'.op \in ReadingOperations
          => (students' = students /\ questions' = questions)
     /\ (last'.op \in LearnerOperations /\ students' # students)
          => last'.op = "submit_answers"]_vars

\* C15 witness: recommendations have been returned to a learner that has
\* answered two batches, marked by the strategy that chose them.
C15_Witness ==
  /\ last.op = "get_recommendations"
  /\ last.status = "success"
  /\ students[last.id].batch_count = 2
  /\ \E i \in DOMAIN last.recommended :
       "recommendation_strategy" \in DOMAIN last.recommended[i]
  /\ questions = QuestionBank

\* the list a is the beginning of the list b
IsPrefix(a, b) == Len(a) <= Len(b) /\ a = SubSeq(b, 1, Len(a))

\* C16: over any step that keeps a learner in the registry, batch_count does
\* not decrease, grows by exactly 1 when the step is a successful
\* submit_answers of that learner, and question_history and vector_history
\* only grow by appending.
C16_HistoriesOnlyGrow ==
  [][\A id \in DOMAIN students \cap DOMAIN students' :
       /\ students'[id].batch_count >= students[id].batch_count
       /\ (last'.op = "submit_answers" /\ last'.status = "success")
            => students'[id].batch_count = students[id].batch_count + 1
       /\ IsPrefix(students[id].question_history, students'[id].question_history)
       /\ IsPrefix(students[id].vector_history, students'[id].vector_history)]_vars

----------------------------------------------------------------------------
(* Claims checked under SpecRegistry *)

\* C17: the ids of the registry are exactly those created or imported since
\* the last clear_all_students: clear empties the id set, a successful
\* create_student or import_student_data adds its id, import_all_students
\* removes none, every other step keeps the id set, get_students_list reports
\* that id set and its size; get_student_status, get_recommendations,
\* submit_answers, get_weak_knowledge_points and export_student_data on an id
\* outside it return UnknownLearner.
C17_ListIsCreatedOrImported ==
  [][LET op == last'.op
         before == DOMAIN students
         after == DOMAIN students'
     IN  /\ op = "clear_all_students" => after = {}
         /\ (op \in {"create_student", "import_student_data"}
               /\ last'.status = "success") => after = before \cup {last'.id}
         /\ op = "import_all_students" => before \subseteq after
         /\ (op \notin {"clear_all_students", "create_student",
                        "import_student_data", "import_all_students"}
               \/ last'.status = "error") => after = before
         /\ op = "get_students_list" =>
              /\ {last'.students[k].student_id : k \in DOMAIN last'.students}
                   = before
              /\ last'.total_count = Cardinality(before)
         /\ (op \in LearnerOperations /\ last'.id \notin before) =>
              /\ last'.status = "error"
              /\ last'.message = "UnknownLearner"]_vars

\* C30: every entry of the registry is kept under the student_id of the
\* learner it holds, after any create_student, import_student_data,
\* import_all_students and clear_all_students.
C30_RegistryKeyedByOwnId ==
  \A id \in DOMAIN students : students[id].student_id = id

====
